---- MODULE Spec2Model ----
(***************************************************************************)
(* A model of the SCPI instrument driver of krgough/scpiExample            *)
(* (src/scpi_project/scpi_module_34465a.py and its siblings): the checked  *)
(* command sequence, the trigger-and-fetch acquisition, the incremental    *)
(* drain (read_data) and the definite-length block decoding.               *)
(*                                                                         *)
(* Texts (bytes objects and decoded strings) are sequences of one-byte     *)
(* strings.  A token longer than one character, such as "\"No error\"",    *)
(* stands for a run of bytes that holds no separator, no white space and   *)
(* no digit; every operation of the code that is modelled (split, strip,   *)
(* int, slicing, endswith) treats such a run as a unit.                    *)
(***************************************************************************)
EXTENDS Integers, Sequences, FiniteSets, TLC

\* ------------------------------------------------------------------ bounds
MaxDuration == 3
MaxFetch == 3
MaxMeasuring == 3
MaxPolls == 5
MaxExpected == 3
MaxChunk == 2
MaxTimeouts == 2
MaxRequests == 5
MaxPayload == 3     \* bytes in the payload of a screen dump block
MaxDigits == 2      \* D of a screen dump block
MaxBuf == 3         \* bytes in a buffer handed to parse_block_header
MaxBit == 15        \* highest bit position of the status register
MaxCloses == 3      \* calls of close() on one device
MaxCmds == 2        \* commands in a list handed to send_commands
MaxCount == 25      \* largest settings['count'] of a DMM6500 measurement

\* ------------------------------------------------------- program constants
\* trigger_and_fetch: "if num_samples > 2000000"
FetchCeiling == 2000000
\* the measuring bit of the standard operation register
measuring_bit == 4

\* ------------------------------------------------------------ text helpers
Digits == {"0", "1", "2", "3", "4", "5", "6", "7", "8", "9"}

DigitVal(c) ==
  CASE c = "0" -> 0 [] c = "1" -> 1 [] c = "2" -> 2 [] c = "3" -> 3
    [] c = "4" -> 4 [] c = "5" -> 5 [] c = "6" -> 6 [] c = "7" -> 7
    [] c = "8" -> 8 [] c = "9" -> 9

\* the white space Python's strip() and int() skip
Space == {" ", "\n", "\t", "\r"}

Min(a, b) == IF a < b THEN a ELSE b
Max(a, b) == IF a > b THEN a ELSE b

\* Python s[a:b] for 0 <= a, 0 <= b: out-of-range bounds are clamped
Slice(s, a, b) ==
  LET lo == Min(a, Len(s))
      hi == Min(b, Len(s))
  IN  IF hi <= lo THEN << >> ELSE SubSeq(s, lo + 1, hi)

\* Python s[a:]
SliceFrom(s, a) == Slice(s, a, Len(s))

\* Python s[a:-1]
SliceButLast(s, a) == Slice(s, a, Max(Len(s) - 1, 0))

\* Python s.endswith(b'\n')
EndsWithNewline(s) == Len(s) > 0 /\ s[Len(s)] = "\n"

RECURSIVE LStrip(_)
LStrip(s) == IF s # << >> /\ Head(s) \in Space THEN LStrip(Tail(s)) ELSE s

RECURSIVE RStrip(_)
RStrip(s) ==
  IF s # << >> /\ s[Len(s)] \in Space THEN RStrip(SubSeq(s, 1, Len(s) - 1)) ELSE s

\* Python s.strip()
Strip(s) == RStrip(LStrip(s))

\* Python s.split(sep): always at least one field
RECURSIVE SplitAcc(_, _, _)
SplitAcc(s, sep, cur) ==
  IF s = << >> THEN << cur >>
  ELSE IF Head(s) = sep THEN << cur >> \o SplitAcc(Tail(s), sep, << >>)
  ELSE SplitAcc(Tail(s), sep, Append(cur, Head(s)))

Split(s, sep) == SplitAcc(s, sep, << >>)

RECURSIVE DecimalValue(_, _)
DecimalValue(s, acc) ==
  IF s = << >> THEN acc ELSE DecimalValue(Tail(s), 10 * acc + DigitVal(Head(s)))

\* Python int(text): white space around is skipped, one sign is allowed, then
\* one or more decimal digits; anything else raises ValueError
PyInt(s) ==
  LET t == Strip(s)
      signed == t # << >> /\ Head(t) \in {"+", "-"}
      body == IF signed THEN Tail(t) ELSE t
      good == body # << >> /\ \A i \in 1..Len(body) : body[i] \in Digits
      mag == IF good THEN DecimalValue(body, 0) ELSE 0
  IN  [ok |-> good, val |-> IF signed /\ Head(t) = "-" THEN 0 - mag ELSE mag]

\* decimal text of a natural number, as the instrument sends it
RECURSIVE DecimalText(_)
DecimalText(n) ==
  LET d == CHOOSE c \in Digits : DigitVal(c) = n % 10
  IN  IF n < 10 THEN << d >> ELSE Append(DecimalText(n \div 10), d)

\* Python bool(value & (1 << bit_number)) for value >= 0
RECURSIVE Pow2(_)
Pow2(n) == IF n = 0 THEN 1 ELSE 2 * Pow2(n - 1)

\* the mask is ignored: any bit that is set counts
BitSet_AnyBit(value, bit_number) == value # 0

BitSet(value, bit_number) == (value \div Pow2(bit_number)) % 2 = 1


\* ---------------------------------------------------------------- state
VARIABLES
  op,            \* the operation main() started: start_measurement or get_existing_data
  measure,       \* start_measurement's measure argument
  duration,      \* settings['duration']
  sample_rate,   \* settings['sample_rate']
  fileExists,    \* os.path.isfile(settings['filename'])
  progress,      \* trigger_and_fetch's progress argument
  eof,           \* the peer has closed connection 2: recv returns b''
  instrReadings, \* readings the instrument holds for FETC?
  measK,         \* status polls the instrument answers with Measuring after *TRG
  pc,            \* position in the code
  exc,           \* the exception that ended the operation, or "none"
  conn,          \* conn[m]: the socket of meter object m is connected and usable
  idx,           \* send_commands: index of the current cmd
  wire,          \* every socket send so far: [cmd, ok]
  bit,           \* the last value get_std_op_reg_bit returned in the wait loop
  measLeft,      \* Measuring answers the instrument still has to give
  nPolls,        \* calls of get_std_op_reg_bit made by the wait loop
  pollLog,       \* the values those calls returned
  stream,        \* bytes of the pending response not yet received
  block,         \* read_data_with_fetch / read_data / get_screen_dump: block, buff
  data,          \* get_existing_data: data
  file,          \* the lines (or bytes) written to the output file
  nSinkWrites,   \* calls of write_data_to_file
  reported,      \* "Sample count error" was printed
  sockOpened,    \* sockets created by _socket_connect
  sockClosed,    \* calls of close()
  expected_points, \* read_data: the number of samples asked for
  data_count,    \* read_data: the running sample count
  chunk,         \* readings in the R? response the instrument sent last
  drained,       \* readings of all R? responses received to their last byte
  connectCalls,  \* calls of connect() made by read_data
  timeouts,      \* socket.timeout exceptions caught by read_data
  gotData,       \* some recv of read_data has returned bytes
  tracking,      \* the history variables (wire, counters) are kept
  payload,       \* get_screen_dump: the payload of the block the instrument sent
  file_size,     \* get_screen_dump: file_size
  header,        \* what parse_block_header returned
  arg,           \* a ScpiDevice method called on its own: its argument
  ret,           \* what that call returned
  events,        \* what that call did with the socket, in order
  error          \* self.error

vars == << op, measure, duration, sample_rate, fileExists, progress, eof,
           instrReadings, measK,
           pc, exc, conn, idx, wire, bit, measLeft, nPolls, pollLog, stream,
           block, data, file, nSinkWrites, reported, sockOpened, sockClosed,
           expected_points, data_count, chunk, drained, connectCalls, timeouts,
           gotData, tracking, payload, file_size, header, arg, ret, events,
           error >>

\* no header has been returned
NoHeader ==
  [outcome |-> "none", data_start |-> 0, num_expected_bytes |-> 0, num_actual_bytes |-> 0]

\* Python's None where a bytes object is expected
None == << "None" >>

\* ------------------------------------------------------------ ScpiDevice
\* connect(): the results of its _socket_connect attempts, in order.  The
\* second attempt is made only if the first failed ("if", not "while").
ConnectAttempts == { << TRUE >>, << FALSE, TRUE >>, << FALSE, FALSE >> }

\* what connect() returns: the result of its last attempt
ConnectResult(attempts) == attempts[Len(attempts)]

\* write(payload): True if socket.send succeeded.  A send on a socket that
\* is not connected fails; a send on a connected one may fail as well.
WriteResults(connected) == IF connected THEN {TRUE, FALSE} ELSE {FALSE}

\* _read(): (resp_state, resp_value) and whether the socket is still usable.
\* socket.timeout and every other socket.error give (False, None).
ReadResults(connected, responses) ==
  { [state |-> FALSE, value |-> None, up |-> FALSE] }
    \cup (IF connected
          THEN { [state |-> FALSE, value |-> None, up |-> TRUE] }
                 \cup { [state |-> TRUE, value |-> t, up |-> TRUE] : t \in responses }
          ELSE { })

\* get(payload): write, and only if the write succeeded one _read
GetResults(connected, responses) ==
  { [sent |-> FALSE, state |-> FALSE, value |-> None, up |-> FALSE] }
    \cup { [sent |-> TRUE, state |-> r.state, value |-> r.value, up |-> r.up] :
             r \in (IF TRUE \in WriteResults(connected)
                    THEN ReadResults(connected, responses) ELSE { }) }

Sent(cmd, ok) == Append(wire, [cmd |-> cmd, ok |-> ok])

\* --------------------------------------------------------- the instrument
\* answers to SYSTem:ERRor? : clean, an error, and texts without a comma
NoErrorText == << "+", "0", ",", "\"No error\"", "\n" >>
ErrorTexts == { << "-", "1", "1", "3", ",", "\"Undefined header\"", "\n" >> }
MalformedTexts == { << >>, << "1", "6", "\n" >> }
ErrorQueueTexts == { NoErrorText } \cup ErrorTexts \cup MalformedTexts

IdnTexts == { << "Keysight34465A", "\n" >> }

\* answers to STAT:OPER:COND? : the register as decimal text.  Bit 4 is
\* Measuring; bit 9 (memory threshold) may be set at any time.
RegisterValues(measuring) ==
  LET base == IF measuring THEN Pow2(measuring_bit) ELSE 0
  IN  { base, base + Pow2(9) }

RegisterTexts(measuring) ==
  { Append(DecimalText(v), "\n") : v \in RegisterValues(measuring) } \cup { << >> }

\* answer to FETC? : n readings, comma separated, newline terminated
RECURSIVE Readings(_)
Readings(n) ==
  IF n = 0 THEN << >>
  ELSE IF n = 1 THEN << "7" >>
  ELSE Readings(n - 1) \o << ",", "7" >>

FetchText(n) == Append(Readings(n), "\n")


\* ------------------------------------------------- code of the 34465A module
\* int(settings['duration'] / settings['sample_rate'])
num_samples == duration \div sample_rate

\* the cmds list of current_measure_setup / voltage_measure_setup
SetupCmds(m) ==
  IF m = "CURR"
  THEN << "SENS:FUNC:ON \"CURR:DC\"", "CONF:CURR:DC", "SENS:CURR:DC:ZERO:AUTO OFF",
          "SENS:CURR:DC:APER", "SAMP:COUNT", "TRIG:SOUR BUS", "SAMP:SOUR TIM",
          "SAMP:TIM", "INIT" >>
  ELSE << "SENS:FUNC:ON \"VOLT:DC\"", "CONF:VOLT:DC", "SENS:VOLT:DC:ZERO:AUTO OFF",
          "SENS:VOLT:DC:APER", "SAMP:COUNT", "TRIG:SOUR BUS", "SAMP:SOUR TIM",
          "SAMP:TIM", "INIT" >>

\* send_commands, after the write: the check of meter.get_error()[1].
\*   error = value.decode().split(',')[1].strip(); error != '"No error"'
ErrorCheck(value) ==
  IF value = None THEN "AttributeError"
  ELSE LET fields == Split(value, ",")
       IN  IF Len(fields) < 2 THEN "IndexError"
           ELSE IF Strip(fields[2]) # << "\"No error\"" >> THEN "CommandError"
           ELSE "clean"

\* a shift that is off by one: bit_number + 1 is tested
GetStdOpRegBit_WrongBit(value, bit_number) ==
  IF value = None THEN "None"
  ELSE LET n == PyInt(Split(value, "\n")[1])
       IN  IF ~n.ok THEN "ValueError"
           ELSE IF BitSet(n.val, bit_number + 1) THEN "True" ELSE "False"

\* get_std_op_reg_bit(bit_number) on the value get_std_op_reg() returned:
\* True, False, None (AttributeError is caught) or an uncaught ValueError
GetStdOpRegBit(value, bit_number) ==
  IF value = None THEN "None"
  ELSE LET n == PyInt(Split(value, "\n")[1])
       IN  IF ~n.ok THEN "ValueError"
           ELSE IF BitSet(n.val, bit_number) THEN "True" ELSE "False"

\* the loop of the specification: an indeterminate poll ends the wait
KeepWaiting_OnlyTrue(bit_val) == bit_val = "True"

\* the wait loop's condition: get_std_op_reg_bit(measuring_bit) in [True, None]
KeepWaiting(bit_val) == bit_val \in {"True", "None"}

\* show_op_reg: int(self.get_std_op_reg()[1].decode())
ShowOpRegOutcome(value) ==
  IF value = None THEN "AttributeError"
  ELSE IF ~PyInt(value).ok THEN "ValueError"
  ELSE "ok"

\* ">=" for ">": a request of exactly the ceiling is refused
TooManySamples_OffByOne(n) == n >= FetchCeiling

\* trigger_and_fetch's guard: refuse more readings than the meter can hold
TooManySamples(n) == n > FetchCeiling

\* read_data_with_fetch: block.decode().strip().split(",")
FetchedData(blk) == Split(Strip(blk), ",")

\* a short series is accepted
CountMatches_AcceptShort(d, n) == Len(d) <= n

\* get_existing_data: the series is saved only if its length is num_samples
CountMatches(d, n) == Len(d) = n

\* where get_existing_data returns to
AfterGetExistingData == IF op = "start_measurement" THEN "sm_close" ELSE "done"

\* where trigger_and_fetch returns to: start_measurement goes on to
\* meter.close(), a direct call is over
AfterTriggerAndFetch == IF op = "start_measurement" THEN "sm_close" ELSE "done"

Raise(e) == pc' = "failed" /\ exc' = e


\* ------------------------------------------------------------ the session
Durations == (1..MaxDuration) \cup {FetchCeiling, FetchCeiling + 1}
SampleRates == {1, 2}

inputs == << op, measure, duration, sample_rate, fileExists, progress >>
sockets == << sockOpened, sockClosed >>
waitVars == << bit, measK, measLeft, nPolls, pollLog >>
fetchVars == << instrReadings, stream, block, data, eof >>
sinkVars == << file, nSinkWrites, reported >>
drainVars == << expected_points, data_count, chunk, drained, connectCalls,
                timeouts, gotData, tracking >>
blockVars == << payload, file_size, header >>
deviceVars == << arg, ret, events, error >>

Init ==
  /\ op \in {"start_measurement", "get_existing_data"}
  /\ measure \in (IF op = "start_measurement" THEN {"CURR", "VOLT", "OTHER"} ELSE {"CURR"})
  /\ duration \in Durations
  /\ sample_rate \in SampleRates
  /\ fileExists \in BOOLEAN
  /\ progress = TRUE
  /\ eof = FALSE
  /\ pc = (IF op = "start_measurement" THEN "sm_start" ELSE "ged_start")
  /\ exc = "none"
  /\ conn = [m \in {1, 2} |-> FALSE]
  /\ idx = 0
  /\ wire = << >>
  /\ bit = "unset"
  /\ measK = 0
  /\ measLeft = 0
  /\ nPolls = 0
  /\ pollLog = << >>
  /\ instrReadings = 0
  /\ stream = << >>
  /\ block = << >>
  /\ data = << >>
  /\ file = << >>
  /\ nSinkWrites = 0
  /\ reported = FALSE
  /\ sockOpened = 0
  /\ sockClosed = 0
  /\ expected_points = 0
  /\ data_count = 0
  /\ chunk = 0
  /\ drained = 0
  /\ connectCalls = 0
  /\ timeouts = 0
  /\ gotData = FALSE
  /\ payload = << >>
  /\ file_size = 0
  /\ header = NoHeader
  /\ arg = << >>
  /\ ret = "none"
  /\ events = << >>
  /\ error = "None"
  /\ tracking = TRUE

\* the destination is never found
file_exists_Never == FALSE

\* file_exists(settings): os.path.isfile(settings['filename'])
file_exists == fileExists

\* start_measurement: "if file_exists(settings): return"
StartMeasurement ==
  /\ pc = "sm_start"
  /\ pc' = (IF file_exists THEN "done" ELSE "sm_get_meter")
  /\ UNCHANGED << inputs, drainVars, blockVars, deviceVars, exc, conn, idx, wire,
                  waitVars, fetchVars, sinkVars, sockets >>

\* get_meter: Multimeter34465a(...) runs connect() in ScpiDevice.__init__
\* and once more in Multimeter34465a.__init__; meter.sock is never None
GetMeter(m, at, next) ==
  /\ pc = at
  /\ \E first \in ConnectAttempts, second \in ConnectAttempts :
       /\ sockOpened' = sockOpened + Len(first) + Len(second)
       /\ conn' = [conn EXCEPT ![m] = ConnectResult(second)]
  /\ pc' = next
  /\ UNCHANGED << inputs, drainVars, blockVars, deviceVars, exc, idx, wire, waitVars,
                  fetchVars, sinkVars, sockClosed >>

\* get_meter: print(meter.get_idn()[1].decode().strip())
GetIdn(m, at, next) ==
  /\ pc = at
  /\ \E q \in GetResults(conn[m], IdnTexts) :
       /\ wire' = Sent("*IDN?", q.sent)
       /\ conn' = [conn EXCEPT ![m] = q.up]
       /\ IF q.value = None THEN Raise("AttributeError")
          ELSE pc' = next /\ exc' = exc
  /\ UNCHANGED << inputs, drainVars, blockVars, deviceVars, idx, waitVars, fetchVars,
                  sinkVars, sockets >>

\* a write whose result the caller ignores: reset, clear_registers, set_trigger
PlainWrite(m, cmd) ==
  \E ok \in WriteResults(conn[m]) :
    /\ wire' = Sent(cmd, ok)
    /\ conn' = [conn EXCEPT ![m] = ok]

\* start_measurement: meter.reset()
Reset ==
  /\ pc = "sm_reset"
  /\ PlainWrite(1, "*RST")
  /\ pc' = "sm_cls"
  /\ UNCHANGED << inputs, drainVars, blockVars, deviceVars, exc, idx, waitVars,
                  fetchVars, sinkVars, sockets >>

\* start_measurement: meter.clear_registers()
ClearRegisters ==
  /\ pc = "sm_cls"
  /\ PlainWrite(1, "*CLS")
  /\ pc' = "sm_show"
  /\ UNCHANGED << inputs, drainVars, blockVars, deviceVars, exc, idx, waitVars,
                  fetchVars, sinkVars, sockets >>

\* show_op_reg(): one STAT:OPER:COND? query, converted with int()
ShowOpReg(at, next) ==
  /\ pc = at
  /\ \E q \in GetResults(conn[1], RegisterTexts(measLeft > 0)) :
       /\ wire' = Sent("STAT:OPER:COND?", q.sent)
       /\ conn' = [conn EXCEPT ![1] = q.up]
       /\ IF ShowOpRegOutcome(q.value) = "ok"
          THEN pc' = next /\ exc' = exc
          ELSE Raise(ShowOpRegOutcome(q.value))
  /\ UNCHANGED << inputs, drainVars, blockVars, deviceVars, idx, waitVars, fetchVars,
                  sinkVars, sockets >>

\* start_measurement: the choice of the setup by measure; an unknown
\* measure closes the meter and returns
MeasureSetup ==
  /\ pc = "sm_setup"
  /\ IF measure \in {"CURR", "VOLT"}
     THEN pc' = "sc_write" /\ idx' = 1 /\ sockClosed' = sockClosed
     ELSE pc' = "done" /\ idx' = idx /\ sockClosed' = sockClosed + 1
  /\ UNCHANGED << inputs, drainVars, blockVars, deviceVars, exc, conn, wire, waitVars,
                  fetchVars, sinkVars, sockOpened >>

\* the last command of the list is left out
MoreCmds_SkipsLast(i, cmds) == i + 1 < Len(cmds)

\* send_commands: "for cmd in cmds", after command number i
MoreCmds(i, cmds) == i < Len(cmds)

\* send_commands: meter.write(cmd); a failed write raises CommandError
SendCommandsWrite ==
  /\ pc = "sc_write"
  /\ \E ok \in WriteResults(conn[1]) :
       /\ wire' = Sent(SetupCmds(measure)[idx], ok)
       /\ conn' = [conn EXCEPT ![1] = ok]
       /\ IF ok THEN pc' = "sc_check" /\ exc' = exc
          ELSE Raise("CommandError")
  /\ UNCHANGED << inputs, drainVars, blockVars, deviceVars, idx, waitVars, fetchVars,
                  sinkVars, sockets >>

\* send_commands: the error-queue query after the command, and the next cmd
SendCommandsCheck ==
  /\ pc = "sc_check"
  /\ \E q \in GetResults(conn[1], ErrorQueueTexts) :
       /\ wire' = Sent("SYSTem:ERRor?", q.sent)
       /\ conn' = [conn EXCEPT ![1] = q.up]
       /\ IF ErrorCheck(q.value) # "clean"
          THEN Raise(ErrorCheck(q.value)) /\ idx' = idx
          ELSE /\ exc' = exc
               /\ IF MoreCmds(idx, SetupCmds(measure))
                  THEN pc' = "sc_write" /\ idx' = idx + 1
                  ELSE pc' = "tf_start" /\ idx' = idx
  /\ UNCHANGED << inputs, drainVars, blockVars, deviceVars, waitVars, fetchVars,
                  sinkVars, sockets >>


\* trigger_and_fetch up to the wait loop: the guard on the sample count,
\* then device.set_trigger().  A trigger that reaches the instrument starts
\* a measurement that shows as Measuring in the next measK status answers.
TriggerAndFetch ==
  /\ pc = "tf_start"
  /\ IF TooManySamples(num_samples)
     THEN /\ pc' = AfterTriggerAndFetch
          /\ UNCHANGED << conn, wire, measK, measLeft >>
     ELSE /\ pc' = "tf_poll"
          /\ PlainWrite(1, "*TRG")
          /\ measK' \in (IF conn'[1] THEN 0..MaxMeasuring ELSE {0})
          /\ measLeft' = measK'
  /\ UNCHANGED << inputs, drainVars, blockVars, deviceVars, exc, idx, bit, nPolls,
                  pollLog, fetchVars, sinkVars, sockets >>

\* "pbar.close()" after the wait loop: pbar is bound only by
\* "if progress: pbar = tqdm(...)"
PbarClose(p) == IF p THEN "closed" ELSE "UnboundLocalError"

\* one pass of "while device.get_std_op_reg_bit(measuring_bit) in [True, None]"
\* with the sleep of the loop body, and pbar.close() when the loop is left;
\* p is the progress argument
PollAs(p) ==
  /\ pc = "tf_poll"
  /\ \E q \in GetResults(conn[1], RegisterTexts(measLeft > 0)) :
       /\ q.value = None => nPolls < MaxPolls
       /\ wire' = Sent("STAT:OPER:COND?", q.sent)
       /\ conn' = [conn EXCEPT ![1] = q.up]
       /\ bit' = GetStdOpRegBit(q.value, measuring_bit)
       /\ nPolls' = nPolls + 1
       /\ pollLog' = Append(pollLog, bit')
       /\ measLeft' = (IF q.value \notin {None, << >>} /\ measLeft > 0
                       THEN measLeft - 1 ELSE measLeft)
       /\ IF bit' = "ValueError" THEN Raise("ValueError")
          ELSE IF KeepWaiting(bit') THEN pc' = "tf_poll" /\ exc' = exc
          ELSE IF PbarClose(p) = "closed" THEN pc' = "tf_show" /\ exc' = exc
          ELSE Raise(PbarClose(p))
  /\ UNCHANGED << inputs, drainVars, blockVars, deviceVars, idx, measK, fetchVars,
                  sinkVars, sockets >>

Poll == PollAs(progress)

\* get_existing_data: "if file_exists(settings): return"
GetExistingData ==
  /\ pc = "ged_start"
  /\ pc' = (IF file_exists THEN AfterGetExistingData ELSE "ged_get_meter")
  /\ UNCHANGED << inputs, drainVars, blockVars, deviceVars, exc, conn, idx, wire,
                  waitVars, fetchVars, sinkVars, sockets >>

\* read_data_with_fetch: device.write('FETC?'), its result ignored
ReadDataWithFetchWrite ==
  /\ pc = "rf_write"
  /\ PlainWrite(2, "FETC?")
  /\ instrReadings' \in (IF conn'[2] THEN 0..MaxFetch ELSE {0})
  /\ stream' = (IF instrReadings' > 0 THEN FetchText(instrReadings') ELSE << >>)
  /\ block' = << >>
  /\ pc' = "rf_recv"
  /\ UNCHANGED << inputs, drainVars, blockVars, deviceVars, exc, idx, waitVars, data,
                  eof, sinkVars, sockets >>

\* read_data_with_fetch: one pass of
\*   while not block.endswith(b'\n'): block += device.sock.recv(100000)
\* and, once the loop is left, the split of the block.  recv returns some
\* bytes, raises socket.timeout or another socket.error, or, once the peer
\* has closed the connection, returns b'' at once, every time it is called.
ReadDataWithFetchRecv ==
  /\ pc = "rf_recv"
  /\ \/ /\ conn[2] /\ ~eof
        /\ \E k \in 1..Len(stream) :
             /\ block' = block \o SubSeq(stream, 1, k)
             /\ stream' = SubSeq(stream, k + 1, Len(stream))
        /\ IF EndsWithNewline(block')
           THEN pc' = "ged_validate" /\ data' = FetchedData(block')
           ELSE pc' = "rf_recv" /\ data' = data
        /\ UNCHANGED << exc, conn, eof >>
     \/ /\ conn[2] /\ ~eof
        /\ Raise("socket.timeout")
        /\ UNCHANGED << conn, stream, block, data, eof >>
     \/ /\ ~eof
        /\ Raise("socket.error")
        /\ conn' = [conn EXCEPT ![2] = FALSE]
        /\ UNCHANGED << stream, block, data, eof >>
     \/ /\ conn[2]
        /\ eof' = TRUE
        /\ stream' = << >>
        /\ block' = block \o << >>
        /\ pc' = "rf_recv"
        /\ UNCHANGED << exc, conn, data >>
  /\ UNCHANGED << inputs, drainVars, blockVars, deviceVars, idx, wire, waitVars,
                  instrReadings, sinkVars, sockets >>

\* write_data_to_file: one line per data point, appended
WriteDataToFile(f, d) == f \o d

\* get_existing_data: the count check, the write or the report, meter.close()
Validate ==
  /\ pc = "ged_validate"
  /\ IF CountMatches(data, num_samples)
     THEN /\ file' = WriteDataToFile(file, data)
          /\ nSinkWrites' = nSinkWrites + 1
          /\ reported' = reported
     ELSE /\ reported' = TRUE
          /\ UNCHANGED << file, nSinkWrites >>
  /\ sockClosed' = sockClosed + 1
  /\ pc' = AfterGetExistingData
  /\ UNCHANGED << inputs, drainVars, blockVars, deviceVars, exc, conn, idx, wire,
                  waitVars, fetchVars, sockOpened >>

\* start_measurement: meter.close()
CloseMeter ==
  /\ pc = "sm_close"
  /\ sockClosed' = sockClosed + 1
  /\ pc' = "done"
  /\ UNCHANGED << inputs, drainVars, blockVars, deviceVars, exc, conn, idx, wire,
                  waitVars, fetchVars, sinkVars, sockOpened >>

Next ==
  \/ StartMeasurement
  \/ GetMeter(1, "sm_get_meter", "sm_idn")
  \/ GetIdn(1, "sm_idn", "sm_reset")
  \/ Reset
  \/ ClearRegisters
  \/ ShowOpReg("sm_show", "sm_setup")
  \/ MeasureSetup
  \/ SendCommandsWrite
  \/ SendCommandsCheck
  \/ TriggerAndFetch
  \/ Poll
  \/ ShowOpReg("tf_show", "ged_start")
  \/ GetExistingData
  \/ GetMeter(2, "ged_get_meter", "ged_idn")
  \/ GetIdn(2, "ged_idn", "rf_write")
  \/ ReadDataWithFetchWrite
  \/ ReadDataWithFetchRecv
  \/ Validate
  \/ CloseMeter

Spec == Init /\ [][Next]_vars


\* ------------------------------------------------------------- properties
Last(s) == s[Len(s)]

\* cmd was handed to socket.send (whether or not the send succeeded)
Attempted(cmd) == \E i \in 1..Len(wire) : wire[i].cmd = cmd

\* the commands that reached the instrument, in order
OnWire == [i \in 1..Len(SelectSeq(wire, LAMBDA e : e.ok)) |->
             SelectSeq(wire, LAMBDA e : e.ok)[i].cmd]

SetupCmdSet == { SetupCmds(measure)[i] : i \in 1..Len(SetupCmds(measure)) }

\* the setup commands that reached the instrument, in order
SetupOnWire == SelectSeq(OnWire, LAMBDA c : c \in SetupCmdSet)

\* send_commands ended in the error-queue check that followed cmd number idx
EndedInErrorCheck ==
  pc = "failed" /\ wire # << >> /\ Last(wire).cmd = "SYSTem:ERRor?"

\* C1: when the error-queue query after command i is the first one that
\* does not return the "No error" sentinel, commands 1..i have been written,
\* no later command has been, and send_commands ends with a CommandError.
C1_AbortsWithCommandError ==
  EndedInErrorCheck =>
    /\ SetupOnWire = SubSeq(SetupCmds(measure), 1, idx)
    /\ exc = "CommandError"

\* The part of C1 the code keeps: after a non-clean error check exactly the
\* commands 1..idx have reached the instrument, whatever exception ended it.
C1_NoLaterCommand ==
  EndedInErrorCheck => SetupOnWire = SubSeq(SetupCmds(measure), 1, idx)

\* C2: write_data_to_file is called only if the number of fetched values
\* equals the requested sample count; on a mismatch nothing is written to
\* the file and the mismatch is reported.
Validated == data # << >> /\ pc \in {"sm_close", "done"}

C2_WriteOnlyOnMatch ==
  /\ nSinkWrites > 0 => (Len(data) = duration \div sample_rate /\ file = data)
  /\ nSinkWrites <= 1
  /\ file # << >> => nSinkWrites > 0
  /\ (Validated /\ Len(data) # duration \div sample_rate) =>
       (file = << >> /\ nSinkWrites = 0 /\ reported)
  /\ (Validated /\ Len(data) = duration \div sample_rate) =>
       (file = data /\ ~reported)

\* requested 3, fetched 2: reported, nothing written
C2_Witness ==
  /\ pc = "done" /\ duration \div sample_rate = 3 /\ Len(data) = 2
  /\ reported /\ file = << >>

C2_MatchReached ==
  pc = "done" /\ duration \div sample_rate = 3 /\ Len(data) = 3 /\ file = data

PollStep == pc = "tf_poll" /\ nPolls' = nPolls + 1

FetchStarted == op = "start_measurement" /\ Attempted("FETC?")

NoIndeterminatePoll == \A i \in 1..Len(pollLog) : pollLog[i] # "None"

\* C4: if the instrument answers Measuring to the first k polls and Idle to
\* poll k+1, the wait loop makes exactly k+1 polls before the fetch starts,
\* and the fetch never starts before a poll has returned Idle.
C4_ExactlyKPlusOnePolls ==
  FetchStarted =>
    /\ pollLog # << >> /\ Last(pollLog) = "False"
    /\ NoIndeterminatePoll =>
         /\ nPolls = measK + 1
         /\ \A i \in 1..measK : pollLog[i] = "True"

\* Measuring for 3 polls, then Idle: 4 polls, then the fetch
C4_Witness ==
  FetchStarted /\ NoIndeterminatePoll /\ measK = 3 /\ nPolls = 4

\* C5 as stated: more than 2,000,000 samples are acquired with the
\* incremental drain (R?), at most 2,000,000 with trigger-and-fetch.
SetupPassed ==
  /\ op = "start_measurement"
  /\ idx = Len(SetupCmds(measure))
  /\ pc \in {"tf_poll", "tf_show", "ged_start", "ged_get_meter", "ged_idn",
             "rf_write", "rf_recv", "ged_validate", "sm_close", "done"}

C5_DrainAboveCeiling ==
  SetupPassed =>
    IF duration \div sample_rate > FetchCeiling
    THEN \E i \in 1..Len(wire) : wire[i].cmd = "R?"
    ELSE Attempted("*TRG")

\* C5 as amended: the choice is made once, in trigger_and_fetch, from the
\* requested count: at most 2,000,000 samples (2,000,000 included) are
\* acquired with trigger-and-fetch; for more than 2,000,000 trigger_and_fetch
\* returns at once and nothing is acquired: no trigger, no status poll of
\* the wait loop, no FETC? and no R? is sent and nothing is written.
C5_RefusedAboveCeiling ==
  /\ [][pc = "tf_start" =>
          IF duration \div sample_rate > 2000000
          THEN pc' = "sm_close" /\ wire' = wire
          ELSE pc' = "tf_poll" /\ Last(wire').cmd = "*TRG"]_vars
  /\ [](SetupPassed =>
          IF duration \div sample_rate > 2000000
          THEN /\ ~Attempted("*TRG") /\ ~Attempted("FETC?") /\ ~Attempted("R?")
               /\ nPolls = 0 /\ file = << >>
          ELSE Attempted("*TRG"))

C5_Witness ==
  /\ SetupPassed /\ pc = "done"
  /\ duration \div sample_rate = 2000001
  /\ ~Attempted("*TRG") /\ file = << >>

C5_AtCeilingReached ==
  SetupPassed /\ duration \div sample_rate = 2000000 /\ Attempted("FETC?")


\* ------------------------------------------------------ block header codec
HeaderError(e) ==
  [outcome |-> e, data_start |-> 0, num_expected_bytes |-> 0, num_actual_bytes |-> 0]

\* the try body of parse_block_header.  Slices never raise IndexError; int()
\* of an empty or non-numeric slice raises ValueError.
ParseBlockHeaderBody(blk) ==
  LET num_digits == PyInt(Slice(blk, 1, 2))
  IN  IF ~num_digits.ok THEN HeaderError("ValueError")
      ELSE LET data_start == num_digits.val + 2
               expected == PyInt(Slice(blk, 2, data_start))
           IN  IF ~expected.ok THEN HeaderError("ValueError")
               ELSE [outcome |-> "ok",
                     data_start |-> data_start,
                     num_expected_bytes |-> expected.val,
                     num_actual_bytes |->
                       IF SliceFrom(blk, Max(Len(blk) - 1, 0)) = << "\n" >>
                       THEN Len(SliceButLast(blk, data_start))
                       ELSE Len(SliceFrom(blk, data_start))]

\* parse_block_header: "except IndexError" re-raises an IndexError that
\* names the block; every other exception passes through unchanged
parse_block_header(blk) ==
  LET r == ParseBlockHeaderBody(blk)
  IN  IF r.outcome = "IndexError" THEN HeaderError("IndexError") ELSE r

\* ------------------------------------------------- read_data (the drain)
\* one reading as the meter formats it: a run of digits
Reading == << "5", "1", "2" >>

RECURSIVE DrainPayload(_)
DrainPayload(n) ==
  IF n = 0 THEN << >>
  ELSE IF n = 1 THEN Reading
  ELSE DrainPayload(n - 1) \o << "," >> \o Reading

\* a definite-length block: #<D><L-digits><payload>\n
BlockText(payload_bytes, num_digits) ==
  LET len == DecimalText(Len(payload_bytes))
      pad == [i \in 1..(num_digits - Len(len)) |-> "0"]
  IN  << "#" >> \o DecimalText(num_digits) \o pad \o len \o payload_bytes \o << "\n" >>

\* the answer to R? when the meter holds n readings
ChunkText(n) ==
  BlockText(DrainPayload(n), Len(DecimalText(Len(DrainPayload(n)))))

Track(counter) == IF tracking THEN counter + 1 ELSE counter
Logged(cmd, ok) == IF tracking THEN Sent(cmd, ok) ELSE wire

\* "<=" for "<": one more request after the count has been reached
DrainMore_OffByOne(count, expected) == count <= expected

\* read_data: "while data_count < expected_points"
DrainMore(count, expected) == count < expected

\* read_data: block.decode().strip()[data_start:].split(',')
BlockList(blk, data_start) == Split(SliceFrom(Strip(blk), data_start), ",")

DrainStart(history) ==
  /\ tracking = history
  /\ op = "read_data"
  /\ measure = "CURR"
  /\ duration = 1
  /\ sample_rate = 1
  /\ fileExists = FALSE
  /\ progress = TRUE
  /\ eof = FALSE
  /\ pc = "rd_loop"
  /\ exc = "none"
  /\ conn = [m \in {1, 2} |-> m = 1]
  /\ idx = 0
  /\ wire = << >>
  /\ bit = "unset"
  /\ measK = 0
  /\ measLeft = 0
  /\ nPolls = 0
  /\ pollLog = << >>
  /\ instrReadings = 0
  /\ stream = << >>
  /\ block = << >>
  /\ data = << >>
  /\ file = << >>
  /\ nSinkWrites = 0
  /\ reported = FALSE
  /\ sockOpened = 1
  /\ sockClosed = 0
  /\ expected_points \in 0..MaxExpected
  /\ data_count = 0
  /\ chunk = 0
  /\ drained = 0
  /\ connectCalls = 0
  /\ timeouts = 0
  /\ gotData = FALSE
  /\ payload = << >>
  /\ file_size = 0
  /\ header = NoHeader
  /\ arg = << >>
  /\ ret = "none"
  /\ events = << >>
  /\ error = "None"

sessionVars == << inputs, idx, waitVars, instrReadings, data, eof, nSinkWrites,
                  reported, sockClosed >>

\* read_data: the loop test, device.write('R? ...') with its result ignored,
\* block = b''.  An R? that reaches the meter is answered with one block of
\* the readings taken since the last R? (none: "#10").
ReadDataLoop ==
  /\ pc = "rd_loop"
  /\ IF DrainMore(data_count, expected_points)
     THEN /\ tracking => Len(wire) < MaxRequests
          /\ \E ok \in WriteResults(conn[1]) :
               /\ wire' = Logged("R?", ok)
               /\ conn' = [conn EXCEPT ![1] = ok]
               /\ \E n \in (IF ok THEN 0..MaxChunk ELSE {0}) :
                    /\ chunk' = n
                    /\ stream' = (IF ok THEN ChunkText(n) ELSE << >>)
          /\ block' = << >>
          /\ pc' = "rd_recv"
     ELSE /\ pc' = "rd_done"
          /\ UNCHANGED << wire, conn, chunk, stream, block >>
  /\ UNCHANGED << sessionVars, blockVars, deviceVars, exc, file, sockOpened,
                  expected_points, data_count,
                  drained, connectCalls, timeouts, gotData, tracking >>

\* read_data: one pass of
\*   while not block.endswith(b'\n'): block = device.sock.recv(buff_len)
\* The block is replaced by what the recv returned.  socket.timeout is
\* caught: block = b'', device.connect(), "No data received", next pass of
\* the outer loop.  Any other socket error is not caught.
ReadDataRecv ==
  /\ pc = "rd_recv"
  /\ \/ /\ conn[1]
        /\ \E k \in 1..Len(stream) :
             /\ block' = SubSeq(stream, 1, k)
             /\ stream' = SubSeq(stream, k + 1, Len(stream))
        /\ gotData' = TRUE
        /\ drained' = (IF stream' = << >> THEN drained + chunk ELSE drained)
        /\ pc' = (IF EndsWithNewline(block') THEN "rd_parse" ELSE "rd_recv")
        /\ UNCHANGED << exc, conn, sockOpened, connectCalls, timeouts >>
     \/ /\ conn[1]
        /\ tracking => timeouts < MaxTimeouts
        /\ timeouts' = Track(timeouts)
        /\ block' = << >>
        /\ stream' = << >>
        /\ connectCalls' = Track(connectCalls)
        /\ \E attempts \in ConnectAttempts :
             /\ sockOpened' = (IF tracking THEN sockOpened + Len(attempts) ELSE sockOpened)
             /\ conn' = [conn EXCEPT ![1] = ConnectResult(attempts)]
        /\ pc' = "rd_loop"
        /\ UNCHANGED << exc, gotData, drained >>
     \/ /\ Raise("socket.error")
        /\ conn' = [conn EXCEPT ![1] = FALSE]
        /\ UNCHANGED << block, stream, gotData, drained, sockOpened, connectCalls, timeouts >>
  /\ UNCHANGED << sessionVars, blockVars, deviceVars, wire, file, expected_points,
                  data_count, chunk, tracking >>

\* an empty data point writes no line
AppendLines_DropsEmpty(f, block_list) ==
  f \o SelectSeq(block_list, LAMBDA x : x # << >>)

\* read_data: with open(filename, mode='a') as file:
\*   for data_point in block_list: file.write("{}\n".format(data_point))
AppendLines(f, block_list) == f \o block_list

\* read_data: the block that ended the inner loop is parsed; unless its
\* declared length is 0 its fields are counted and appended to the file
ReadDataParse ==
  /\ pc = "rd_parse"
  /\ \E h \in { parse_block_header(block) } :
       IF h.outcome # "ok"
       THEN Raise(h.outcome) /\ UNCHANGED << data_count, file >>
       ELSE /\ pc' = "rd_loop"
            /\ exc' = exc
            /\ IF h.num_expected_bytes # 0
               THEN \E block_list \in { BlockList(block, h.data_start) } :
                      /\ data_count' = data_count + Len(block_list)
                      /\ file' = AppendLines(file, block_list)
               ELSE UNCHANGED << data_count, file >>
  /\ UNCHANGED << sessionVars, blockVars, deviceVars, conn, wire, stream, block,
                  sockOpened, expected_points,
                  chunk, drained, connectCalls, timeouts, gotData, tracking >>

DrainNext == ReadDataLoop \/ ReadDataRecv \/ ReadDataParse

\* read_data with its history kept, for the safety properties
DrainInit == DrainStart(TRUE)

DrainSpec == DrainInit /\ [][DrainNext]_vars

\* read_data without history variables: the program runs on as long as it
\* can take a step
FairDrainInit == DrainStart(FALSE)

FairDrainSpec == FairDrainInit /\ [][DrainNext]_vars /\ WF_vars(DrainNext)


\* a socket.timeout was caught by read_data in this step
TimeoutStep == timeouts' = timeouts + 1

\* read_data handed an R? request to the socket in this step
RequestStep == Len(wire') = Len(wire) + 1 /\ Last(wire').cmd = "R?"

\* The part of C6 about the resume: a timeout while waiting for a chunk
\* causes exactly one call of connect, leaves the running count as it was
\* and leads back to the loop head, where the R? request is issued again.
C6_OneReconnectPerTimeout ==
  /\ [][TimeoutStep =>
          /\ connectCalls' = connectCalls + 1
          /\ data_count' = data_count
          /\ pc' = "rd_loop" /\ data_count' < expected_points]_vars
  /\ [][(pc = "rd_loop" /\ data_count < expected_points) => RequestStep]_vars

\* C6: a timeout while waiting for chunk N causes exactly one reconnect and
\* one re-issue of the R? request, the running count is not reset, and at
\* the end the count equals the sum of the sizes of the chunks that were
\* drained from the meter to their last byte.
C6_ResumeKeepsCount ==
  /\ [][TimeoutStep =>
          /\ connectCalls' = connectCalls + 1
          /\ data_count' = data_count
          /\ pc' = "rd_loop" /\ data_count' < expected_points]_vars
  /\ [][(pc = "rd_loop" /\ data_count < expected_points) => RequestStep]_vars
  /\ [](pc = "rd_done" => data_count = drained)

\* a drain that lost a chunk to a timeout and ended with every other chunk
\* counted in full
C6_ResumedReached ==
  pc = "rd_done" /\ timeouts > 0 /\ data_count = drained /\ data_count > 0

\* C7: the same chunk is not requested again and again without bound: when
\* every read times out, the drain ends (the failure is escalated).
C7_RetryBounded == <>(gotData \/ pc \in {"rd_done", "failed"})

\* C8: read_data sends an R? request exactly when the running count is
\* below the requested count when the loop condition is tested: no request
\* is sent once data_count >= expected_points, another one is sent whenever
\* data_count < expected_points, and it returns only with
\* data_count >= expected_points.
C8_StopsAtRequestedCount ==
  /\ [][RequestStep => (pc = "rd_loop" /\ data_count < expected_points)]_vars
  /\ [][(pc = "rd_loop" /\ data_count >= expected_points) =>
          (pc' = "rd_done" /\ wire' = wire)]_vars
  /\ [][(pc = "rd_loop" /\ data_count < expected_points) =>
          (RequestStep /\ pc' = "rd_recv")]_vars
  /\ [][pc = "rd_done" => pc' = "rd_done"]_vars
  /\ [](pc = "rd_done" => data_count >= expected_points)

\* three samples asked for, drained in two requests
C8_Witness ==
  /\ pc = "rd_done" /\ expected_points = 3 /\ data_count >= 3
  /\ Len(wire) = 2 /\ wire[1].cmd = "R?" /\ wire[2].cmd = "R?"


\* C11: partial arrivals are tolerated: when the answer to one R? arrives
\* in several reads, the block handed to parse_block_header holds every
\* byte received for that answer, in order.
C11_BlockHoldsEveryByte ==
  pc = "rd_parse" => block = ChunkText(chunk)

\* an answer that arrived in one read is parsed whole
C11_OneReadReached ==
  pc = "rd_parse" /\ chunk = MaxChunk /\ block = ChunkText(chunk)

\* the byte counts parse_block_header returns for the block differ
ByteCountError(blk) ==
  LET h == parse_block_header(blk)
  IN  h.outcome = "ok" /\ h.num_expected_bytes # h.num_actual_bytes

\* C12: a block whose declared length differs from the length of its
\* payload is a framing error: read_data counts no sample of it and writes
\* none to the file.
C12_MismatchNotCounted ==
  [][(pc = "rd_parse" /\ ByteCountError(block)) =>
       (data_count' = data_count /\ file' = file)]_vars

\* every block that arrived whole has the length it declares
C12_WholeBlockMatches ==
  (pc = "rd_parse" /\ block = ChunkText(chunk)) => ~ByteCountError(block)


\* ------------------------------------- get_screen_dump and the block header
\* bufsize of the recv calls of get_screen_dump
buffersize == 256

PayloadBytes == {"a", "b"}
Payloads == UNION { [1..n -> PayloadBytes] : n \in 0..MaxPayload }

\* the bytes parse_block_header is tried on
HeaderBytes == {"#", "1", "2", "x", "\n"}
Buffers == UNION { [1..n -> HeaderBytes] : n \in 0..MaxBuf }

\* get_screen_dump, "strip the header out":
\*   num_digits = int(chr(buff[1]))
\*   file_size = int(buff[2:num_digits+2])
\*   buff = buff[2 + num_digits:]
\* buff[1] raises IndexError on a buffer of fewer than 2 bytes, int() raises
\* ValueError on an empty or non-numeric text
StripHeader(buff) ==
  IF Len(buff) < 2 THEN [outcome |-> "IndexError", file_size |-> 0, buff |-> buff]
  ELSE LET num_digits == PyInt(<< buff[2] >>)
       IN  IF ~num_digits.ok
           THEN [outcome |-> "ValueError", file_size |-> 0, buff |-> buff]
           ELSE LET size == PyInt(Slice(buff, 2, num_digits.val + 2))
                IN  IF ~size.ok
                    THEN [outcome |-> "ValueError", file_size |-> 0, buff |-> buff]
                    ELSE [outcome |-> "ok", file_size |-> size.val,
                          buff |-> SliceFrom(buff, 2 + num_digits.val)]

\* get_screen_dump: "while len(buff) < file_size"
RestMissing(buff, size) == Len(buff) < size

\* get_screen_dump: file.write(buff[0:-1])
SavedBytes(buff) == SliceButLast(buff, 0)

BlockStart ==
  /\ op \in {"get_screen_dump", "parse_block_header"}
  /\ block \in (IF op = "parse_block_header" THEN Buffers ELSE { << >> })
  /\ pc = (IF op = "parse_block_header" THEN "pb_call" ELSE "sd_write")
  /\ conn = [m \in {1, 2} |-> m = 1 /\ op = "get_screen_dump"]
  /\ sockOpened = (IF op = "get_screen_dump" THEN 1 ELSE 0)
  /\ tracking = TRUE
  /\ measure = "CURR"
  /\ duration = 1
  /\ sample_rate = 1
  /\ fileExists = FALSE
  /\ progress = TRUE
  /\ eof = FALSE
  /\ exc = "none"
  /\ idx = 0
  /\ wire = << >>
  /\ bit = "unset"
  /\ measK = 0
  /\ measLeft = 0
  /\ nPolls = 0
  /\ pollLog = << >>
  /\ instrReadings = 0
  /\ stream = << >>
  /\ data = << >>
  /\ file = << >>
  /\ nSinkWrites = 0
  /\ reported = FALSE
  /\ sockClosed = 0
  /\ expected_points = 0
  /\ data_count = 0
  /\ chunk = 0
  /\ drained = 0
  /\ connectCalls = 0
  /\ timeouts = 0
  /\ gotData = FALSE
  /\ payload = << >>
  /\ file_size = 0
  /\ header = NoHeader
  /\ arg = << >>
  /\ ret = "none"
  /\ events = << >>
  /\ error = "None"

restVars == << sessionVars, drainVars, deviceVars, sockOpened >>

\* get_screen_dump: if self.write("HCOPy:SDUMp:DATA?"), else return False.
\* The instrument answers a request that reached it with one block
\* #<D><L-digits><payload>\n.
ScreenDumpWrite ==
  /\ pc = "sd_write"
  /\ \E ok \in WriteResults(conn[1]) :
       /\ wire' = Sent("HCOPy:SDUMp:DATA?", ok)
       /\ conn' = [conn EXCEPT ![1] = ok]
       /\ IF ok
          THEN /\ \E p \in Payloads, num_digits \in 1..MaxDigits :
                    /\ Len(DecimalText(Len(p))) <= num_digits
                    /\ payload' = p
                    /\ stream' = BlockText(p, num_digits)
               /\ pc' = "sd_first"
          ELSE /\ pc' = "done"
               /\ UNCHANGED << payload, stream >>
  /\ UNCHANGED << restVars, exc, block, file, file_size, header >>

\* get_screen_dump: buff = self.sock.recv(256) and the header is stripped.
\* The recv returns some first part of what the instrument sent; a
\* socket.timeout or another socket error is not caught.
ScreenDumpFirst ==
  /\ pc = "sd_first"
  /\ \/ /\ \E k \in 1..Min(Len(stream), buffersize) :
             /\ stream' = SubSeq(stream, k + 1, Len(stream))
             /\ \E h \in { StripHeader(SubSeq(stream, 1, k)) } :
                  /\ block' = h.buff
                  /\ file_size' = h.file_size
                  /\ IF h.outcome = "ok"
                     THEN pc' = "sd_rest" /\ exc' = exc
                     ELSE Raise(h.outcome)
        /\ UNCHANGED conn
     \/ /\ Raise("socket.timeout")
        /\ UNCHANGED << stream, block, file_size, conn >>
     \/ /\ Raise("socket.error")
        /\ conn' = [conn EXCEPT ![1] = FALSE]
        /\ UNCHANGED << stream, block, file_size >>
  /\ UNCHANGED << restVars, wire, file, payload, header >>

\* get_screen_dump: "Now grab the rest from the socket"
\*   while len(buff) < file_size: buff = buff + self.sock.recv(256)
\* and, when the loop is left, file.write(buff[0:-1]); return True
ScreenDumpRest ==
  /\ pc = "sd_rest"
  /\ IF RestMissing(block, file_size)
     THEN \/ /\ \E k \in 1..Min(Len(stream), buffersize) :
                  /\ block' = block \o SubSeq(stream, 1, k)
                  /\ stream' = SubSeq(stream, k + 1, Len(stream))
             /\ UNCHANGED << pc, exc, conn, file >>
          \/ /\ Raise("socket.timeout")
             /\ UNCHANGED << stream, block, conn, file >>
          \/ /\ Raise("socket.error")
             /\ conn' = [conn EXCEPT ![1] = FALSE]
             /\ UNCHANGED << stream, block, file >>
     ELSE /\ file' = SavedBytes(block)
          /\ pc' = "sd_done"
          /\ UNCHANGED << exc, conn, stream, block >>
  /\ UNCHANGED << restVars, wire, file_size, payload, header >>

\* a call of parse_block_header(block): it returns the header or raises
ParseBlockHeader ==
  /\ pc = "pb_call"
  /\ \E h \in { parse_block_header(block) } :
       IF h.outcome = "ok"
       THEN /\ header' = h
            /\ pc' = "pb_returned"
            /\ exc' = exc
       ELSE /\ Raise(h.outcome)
            /\ header' = header
  /\ UNCHANGED << restVars, conn, wire, stream, block, file, payload, file_size >>

BlockNext == ScreenDumpWrite \/ ScreenDumpFirst \/ ScreenDumpRest \/ ParseBlockHeader

BlockSpec == BlockStart /\ [][BlockNext]_vars

\* C9: block round trip.  For every valid block #<D><L-digits><payload>
\* and every way its bytes are split over the reads, get_screen_dump saves
\* exactly the payload (no payload byte dropped, no terminator byte kept),
\* and the header decoding does not fail on it.
C9_SavesExactlyThePayload ==
  /\ pc = "sd_done" => file = payload
  /\ (op = "get_screen_dump" /\ pc = "failed") => exc \in {"socket.timeout", "socket.error"}

\* the block arrived in one read and was saved whole
C9_OneReadReached ==
  /\ pc = "sd_done" /\ Len(payload) = MaxPayload /\ file = payload

\* a buffer C10 is about: shorter than 2 bytes, or with a digit-count byte
\* or a declared length digit that is not a decimal digit
Malformed(blk) ==
  \/ Len(blk) < 2
  \/ blk[2] \notin Digits
  \/ \E i \in 3..Min(Len(blk), DigitVal(blk[2]) + 2) : blk[i] \notin Digits

\* C10: on every such buffer parse_block_header ends with the framing
\* error (the IndexError its handler raises): with no other failure and
\* without returning a header.
C10_FramingErrorOnMalformed ==
  (op = "parse_block_header" /\ pc # "pb_call" /\ Malformed(block)) =>
    (pc = "failed" /\ exc = "IndexError" /\ header = NoHeader)

\* every failure of parse_block_header is a ValueError that passes its handler
C10_OnlyValueError ==
  (op = "parse_block_header" /\ pc = "failed") => exc = "ValueError"


\* ------------------------------------------- ScpiDevice methods on their own
DeviceOps == {"get_std_op_reg_bit", "connect", "write", "_read", "get", "close"}

\* answers to STAT:OPER:COND? tried on get_std_op_reg_bit: every single bit,
\* no bit, two bits, a signed value, and texts that are not a number
DeviceRegisterTexts ==
  { Append(DecimalText(Pow2(k)), "\n") : k \in 0..MaxBit }
    \cup { << "0", "\n" >>, << "4", "8", "\n" >>, << "+", "1", "6", "\n" >>,
           << >>, << "\n" >>, NoErrorText }

\* payloads tried on write: with and without a newline at the end
DevicePayloads == { << "*RST" >>, << "*RST", "\n" >>, << >>, << "\n" >> }

DeviceStart ==
  /\ op \in DeviceOps
  /\ arg \in (CASE op = "get_std_op_reg_bit" -> 0..MaxBit
                [] op = "write" -> DevicePayloads
                [] op = "get" -> { << "*IDN?" >> }
                [] OTHER -> { << >> })
  /\ stream \in (CASE op = "get_std_op_reg_bit" -> DeviceRegisterTexts
                   [] op \in {"_read", "get"} -> IdnTexts \cup { << >> }
                   [] OTHER -> { << >> })
  /\ conn \in (IF op = "connect" THEN { [m \in {1, 2} |-> FALSE] }
               ELSE { [m \in {1, 2} |-> m = 1 /\ c] : c \in BOOLEAN })
  /\ sockOpened = (IF op = "connect" THEN 0 ELSE 1)
  /\ pc = (IF op = "connect" THEN "cn_first" ELSE "dv_call")
  /\ tracking = TRUE
  /\ measure = "CURR"
  /\ duration = 1
  /\ sample_rate = 1
  /\ fileExists = FALSE
  /\ progress = TRUE
  /\ eof = FALSE
  /\ exc = "none"
  /\ idx = 0
  /\ wire = << >>
  /\ bit = "unset"
  /\ measK = 0
  /\ measLeft = 0
  /\ nPolls = 0
  /\ pollLog = << >>
  /\ instrReadings = 0
  /\ block = << >>
  /\ data = << >>
  /\ file = << >>
  /\ nSinkWrites = 0
  /\ reported = FALSE
  /\ sockClosed = 0
  /\ expected_points = 0
  /\ data_count = 0
  /\ chunk = 0
  /\ drained = 0
  /\ connectCalls = 0
  /\ timeouts = 0
  /\ gotData = FALSE
  /\ payload = << >>
  /\ file_size = 0
  /\ header = NoHeader
  /\ ret = "none"
  /\ events = << >>
  /\ error = "None"

otherVars == << inputs, idx, waitVars, instrReadings, data, eof, sinkVars, drainVars,
                blockVars >>

\* get_std_op_reg_bit(bit_number): one get("STAT:OPER:COND?"), whose value
\* is kept in block, and the bit test on it
GetStdOpRegBitCall ==
  /\ pc = "dv_call" /\ op = "get_std_op_reg_bit"
  /\ \E q \in GetResults(conn[1], { stream }) :
       /\ wire' = Sent("STAT:OPER:COND?", q.sent)
       /\ conn' = [conn EXCEPT ![1] = q.up]
       /\ block' = q.value
       /\ \E bit_val \in { GetStdOpRegBit(q.value, arg) } :
            IF bit_val = "ValueError"
            THEN Raise("ValueError") /\ ret' = ret
            ELSE pc' = "dv_returned" /\ exc' = exc /\ ret' = bit_val
  /\ UNCHANGED << otherVars, sockets, stream, arg, events, error >>

\* connect(): max_attempts = 5, time.sleep(30)
max_attempts == 5
RetrySleep == 30

\* one thing a call did with the socket (or with the clock)
Ev(kind, ok, secs, bytes) == [kind |-> kind, ok |-> ok, secs |-> secs, bytes |-> bytes]

BoolText(b) == IF b THEN "True" ELSE "False"

\* a retry is made even after a successful attempt
ShouldRetry_EvenConnected(ok, attempts) == attempts < max_attempts

\* connect(): "if not conn and attempts < max_attempts"
ShouldRetry(ok, attempts) == ~ok /\ attempts < max_attempts

\* one _socket_connect(): a new socket, connected or not
SocketConnect(ok) ==
  /\ events' = Append(events, Ev("connect", ok, 0, << >>))
  /\ sockOpened' = sockOpened + 1
  /\ conn' = [conn EXCEPT ![1] = ok]
  /\ error' = (IF ok THEN error ELSE "ERROR: Socket connection error.")

\* connect(): conn = self._socket_connect(); attempts = 1; the "if"
ConnectFirst ==
  /\ pc = "cn_first"
  /\ \E ok \in BOOLEAN :
       /\ SocketConnect(ok)
       /\ IF ShouldRetry(ok, 1)
          THEN pc' = "cn_sleep" /\ ret' = ret
          ELSE pc' = "dv_returned" /\ ret' = BoolText(ok)
  /\ UNCHANGED << otherVars, sockClosed, fetchVars, wire, exc, arg >>

\* connect(): the message and time.sleep(30)
ConnectSleep ==
  /\ pc = "cn_sleep"
  /\ events' = Append(events, Ev("sleep", TRUE, RetrySleep, << >>))
  /\ pc' = "cn_retry"
  /\ UNCHANGED << otherVars, sockets, fetchVars, wire, exc, conn, arg, ret, error >>

\* connect(): attempts += 1; conn = self._socket_connect(); return conn
ConnectRetry ==
  /\ pc = "cn_retry"
  /\ \E ok \in BOOLEAN :
       /\ SocketConnect(ok)
       /\ ret' = BoolText(ok)
  /\ pc' = "dv_returned"
  /\ UNCHANGED << otherVars, sockClosed, fetchVars, wire, exc, arg >>

\* write(payload): the bytes handed to socket.send, (payload + '\n').encode()
WireBytes(text) == Append(text, "\n")

\* write(payload): True and self.error = None, or False and the error text
DeviceWrite ==
  /\ pc = "dv_call" /\ op = "write"
  /\ \E ok \in WriteResults(conn[1]) :
       /\ events' = Append(events, Ev("send", ok, 0, WireBytes(arg)))
       /\ conn' = [conn EXCEPT ![1] = ok]
       /\ error' = (IF ok THEN "None" ELSE "ERROR: Socket send error.")
       /\ ret' = BoolText(ok)
  /\ pc' = "dv_returned"
  /\ UNCHANGED << otherVars, sockets, fetchVars, wire, exc, arg >>

\* how one sock.recv can end: with bytes, with socket.timeout, or with
\* another socket.error (the only way on a socket that is not connected)
RecvCauses(connected) ==
  IF connected THEN {"data", "socket.timeout", "socket.error"} ELSE {"socket.error"}

\* _read(): (resp_state, resp_value).  "except socket.error" takes
\* socket.timeout as well, which is a subclass of it.
ReadOutcome(cause, text) ==
  IF cause = "data" THEN << "True", text >> ELSE << "False", None >>

\* _read(): self.error, the text of the exception at its end
ReadError(cause) ==
  CASE cause = "data" -> "None"
    [] cause = "socket.timeout" -> "ERROR: socket recieve error. timed out"
    [] OTHER -> "ERROR: socket recieve error. <errno text>"

\* the recv of _read() and what _read() makes of it
Recv(cause, log) ==
  /\ events' = Append(log, Ev("recv", cause = "data", 0, << cause >>))
  /\ ret' = ReadOutcome(cause, stream)
  /\ error' = ReadError(cause)
  /\ conn' = [conn EXCEPT ![1] = conn[1] /\ cause # "socket.error"]

\* _read()
DeviceRead ==
  /\ pc = "dv_call" /\ op = "_read"
  /\ \E cause \in RecvCauses(conn[1]) : Recv(cause, events)
  /\ pc' = "dv_returned"
  /\ UNCHANGED << otherVars, sockets, fetchVars, wire, exc, arg >>

\* the read is made whatever the write returned
ReadAfterWrite_Always(write_state) == TRUE

\* get(payload): "if not self.write(payload)" ... "else: self._read()"
ReadAfterWrite(write_state) == write_state

\* get(payload): (False, None) if the write failed, else what _read() returns
DeviceGet ==
  /\ pc = "dv_call" /\ op = "get"
  /\ \E ok \in WriteResults(conn[1]) :
       IF ReadAfterWrite(ok)
       THEN \E cause \in RecvCauses(conn[1]) :
              Recv(cause, Append(events, Ev("send", ok, 0, WireBytes(arg))))
       ELSE /\ events' = Append(events, Ev("send", FALSE, 0, WireBytes(arg)))
            /\ ret' = << "False", None >>
            /\ error' = "ERROR: Socket send error."
            /\ conn' = [conn EXCEPT ![1] = FALSE]
  /\ pc' = "dv_returned"
  /\ UNCHANGED << otherVars, sockets, fetchVars, wire, exc, arg >>

\* the second close() of a socket raises
CloseRaises_OnClosed(closed_before) == closed_before

\* close(): self.sock.close() releases the socket; on a socket that was
\* closed before it does nothing and raises nothing
CloseRaises(closed_before) == FALSE

\* close(), any number of times
DeviceClose ==
  /\ pc \in {"dv_call", "dv_returned"} /\ op = "close"
  /\ sockClosed < MaxCloses
  /\ IF CloseRaises(sockClosed > 0)
     THEN Raise("OSError") /\ UNCHANGED << events, sockClosed, conn, ret >>
     ELSE /\ events' = Append(events, Ev("close", TRUE, 0, << >>))
          /\ sockClosed' = sockClosed + 1
          /\ conn' = [conn EXCEPT ![1] = FALSE]
          /\ ret' = "None"
          /\ pc' = "dv_returned"
          /\ exc' = exc
  /\ UNCHANGED << otherVars, sockOpened, fetchVars, wire, arg, error >>

DeviceNext ==
  \/ GetStdOpRegBitCall
  \/ ConnectFirst \/ ConnectSleep \/ ConnectRetry
  \/ DeviceWrite \/ DeviceRead \/ DeviceGet
  \/ DeviceClose

DeviceSpec == DeviceStart /\ [][DeviceNext]_vars


\* the answer of the instrument whose register holds the single bit k
SingleBitText(k) == Append(DecimalText(Pow2(k)), "\n")

\* C13: the bit test round-trips.  For every bit position k in 0..15, when
\* the value read from STAT:OPER:COND? is the decimal text of 1<<k,
\* get_std_op_reg_bit(k) returns True and get_std_op_reg_bit(j) returns
\* False for every other position j; nothing but the value of this one
\* read and the bit number decides the result.
C13_BitTestRoundTrips ==
  \A k \in 0..MaxBit :
    (op = "get_std_op_reg_bit" /\ pc # "dv_call" /\ block = SingleBitText(k)) =>
      (pc = "dv_returned" /\ ret = (IF arg = k THEN "True" ELSE "False"))

\* the highest bit alone is set and the highest bit is asked for
C13_Witness ==
  /\ op = "get_std_op_reg_bit" /\ pc = "dv_returned"
  /\ block = SingleBitText(MaxBit) /\ arg = MaxBit /\ ret = "True"

\* another bit than the one set is asked for
C13_OtherBitReached ==
  /\ op = "get_std_op_reg_bit" /\ pc = "dv_returned"
  /\ block = SingleBitText(MaxBit) /\ arg = 0 /\ ret = "False"

\* the value of the register could not be determined from what get returned
Undetermined(value) ==
  value = None \/ ~PyInt(Split(value, "\n")[1]).ok

\* C14: whatever the register read gives (send failure, receive failure,
\* empty or non-numeric text, a valid integer), get_std_op_reg_bit returns
\* one of True, False, None and never raises, and it returns None exactly
\* when the value could not be determined.
C14_TrueFalseOrNone ==
  (op = "get_std_op_reg_bit" /\ pc # "dv_call") =>
    /\ pc = "dv_returned"
    /\ ret \in {"True", "False", "None"}
    /\ ret = "None" <=> Undetermined(block)

\* a failed read does give None
C14_NoneOnFailedRead ==
  (op = "get_std_op_reg_bit" /\ pc # "dv_call" /\ block = None) =>
    (pc = "dv_returned" /\ ret = "None")

\* the results of the _socket_connect attempts of one connect(), in order
RECURSIVE AttemptResults(_)
AttemptResults(log) ==
  IF log = << >> THEN << >>
  ELSE IF Head(log).kind = "connect"
       THEN << Head(log).ok >> \o AttemptResults(Tail(log))
       ELSE AttemptResults(Tail(log))

\* C15: connect() is a bounded retry with a fixed backoff.  Every wait is
\* 30 s long and stands between a failed attempt and the next attempt, a
\* failed attempt that is not the last is followed by a wait, nothing
\* follows a successful attempt; connect() returns after at most 5
\* attempts, after at least 2 when every attempt failed, never right after
\* a wait, and then does nothing more.
C15_BoundedRetry ==
  /\ [](op = "connect" =>
        /\ \A i \in 1..Len(events) :
             /\ events[i].kind = "sleep" =>
                  /\ events[i].secs = 30
                  /\ i > 1 /\ events[i - 1].kind = "connect" /\ ~events[i - 1].ok
                  /\ i < Len(events) => events[i + 1].kind = "connect"
             /\ (events[i].kind = "connect" /\ ~events[i].ok /\ i < Len(events)) =>
                  events[i + 1].kind = "sleep"
             /\ (events[i].kind = "connect" /\ events[i].ok) => i = Len(events)
        /\ pc = "dv_returned" =>
             /\ Last(events).kind = "connect"
             /\ AttemptResults(events) \in ConnectAttempts
             /\ Len(AttemptResults(events)) \in 1..max_attempts
             /\ ret = BoolText(ConnectResult(AttemptResults(events)))
             /\ ret = "False" => Len(AttemptResults(events)) \in 2..max_attempts)
  /\ [][(op = "connect" /\ pc = "dv_returned") => FALSE]_vars

\* every attempt failed: two attempts and one wait between them
C15_Witness ==
  /\ op = "connect" /\ pc = "dv_returned" /\ ret = "False"
  /\ Len(events) = 3 /\ events[2].kind = "sleep"
  /\ AttemptResults(events) = << FALSE, FALSE >>


\* C16: a connect whose attempts all failed is fatal to the session:
\* get_meter ends with a connection error, so *IDN? (or any other command)
\* is never sent on the unconnected socket, and the session never ends with
\* another exception raised on that socket.
C16_FailedConnectIsFatal ==
  /\ pc = "sm_idn" => conn[1]
  /\ pc = "ged_idn" => conn[2]
  /\ (pc = "failed" /\ wire = << [cmd |-> "*IDN?", ok |-> FALSE] >>
        /\ sockOpened = 4) => exc = "ConnectionError"

\* what the code does after a failed connect: *IDN? is handed to the
\* unconnected socket and the None that get returns is decoded
C16_IdnOnUnconnectedReached ==
  /\ pc = "failed" /\ exc = "AttributeError" /\ sockOpened = 4
  /\ wire = << [cmd |-> "*IDN?", ok |-> FALSE] >>

\* text ends with exactly one newline
EndsWithOneNewline(text) ==
  /\ Len(text) >= 1 /\ text[Len(text)] = "\n"
  /\ Len(text) >= 2 => text[Len(text) - 1] # "\n"

\* C17: write appends the line terminator only if it is absent: whatever
\* the command, the bytes handed to the socket end with exactly one
\* newline.
C17_ExactlyOneNewline ==
  (op = "write" /\ pc = "dv_returned") => EndsWithOneNewline(Last(events).bytes)

\* what write does: the payload and one newline, whatever the payload
C17_AlwaysAppends ==
  (op = "write" /\ pc = "dv_returned") => Last(events).bytes = Append(arg, "\n")

\* a payload without a newline goes out with one
C17_PlainReached ==
  /\ op = "write" /\ pc = "dv_returned" /\ arg = << "*RST" >>
  /\ Last(events).bytes = << "*RST", "\n" >>

\* C18: a read that timed out is reported to the caller of _read / get
\* otherwise than a read that failed with another socket error.
C18_TimeoutDistinct ==
  (op \in {"_read", "get"} /\ pc = "dv_returned"
     /\ Last(events).kind = "recv" /\ Last(events).bytes = << "socket.timeout" >>) =>
    ret # ReadOutcome("socket.error", stream)

\* every failure of _read / get comes back as (False, None)
C18_FailuresLookAlike ==
  (op \in {"_read", "get"} /\ pc = "dv_returned" /\ ~Last(events).ok) =>
    ret = << "False", None >>

\* C19: every socket opened during a session is closed exactly once by the
\* end of the session, on every path through start_measurement and
\* get_existing_data.
C19_EverySocketClosed ==
  pc \in {"done", "failed"} => sockClosed = sockOpened

\* a session that ended normally after a measurement: two meter objects,
\* each closed once, each having opened at least two sockets
C19_TwoPerMeterReached ==
  pc = "done" /\ op = "start_measurement" /\ sockClosed = 2 /\ sockOpened >= 4

\* C20: close() is idempotent: a call after the first leaves the
\* connection released, raises nothing and changes nothing else.
C20_CloseIdempotent ==
  /\ [][(op = "close" /\ sockClosed >= 1) =>
          /\ sockClosed' = sockClosed + 1
          /\ pc' = "dv_returned" /\ exc' = "none"
          /\ conn' = conn /\ ~conn'[1]
          /\ ret' = ret /\ error' = error
          /\ wire' = wire /\ sockOpened' = sockOpened /\ stream' = stream]_vars
  /\ [](op = "close" => (exc = "none" /\ (sockClosed >= 1 => ~conn[1])))

\* close() was called as often as the bound allows on a connected device
C20_Witness ==
  /\ op = "close" /\ pc = "dv_returned" /\ sockClosed = MaxCloses
  /\ sockClosed >= 2 /\ ~conn[1] /\ exc = "none"


\* C21: get writes the command and then makes exactly one read, whose raw
\* bytes it returns; if the write fails no read is made and the result is
\* the pair (False, None).
C21_WriteThenOneRead ==
  (op = "get" /\ pc = "dv_returned") =>
    /\ events[1].kind = "send" /\ events[1].bytes = WireBytes(arg)
    /\ IF events[1].ok
       THEN /\ Len(events) = 2 /\ events[2].kind = "recv"
            /\ ret = ReadOutcome(events[2].bytes[1], stream)
            /\ events[2].ok => ret = << "True", stream >>
       ELSE Len(events) = 1 /\ ret = << "False", None >>

\* the answer of the instrument came back from get
C21_Witness ==
  /\ op = "get" /\ pc = "dv_returned" /\ Len(events) = 2 /\ events[2].ok
  /\ stream # << >> /\ ret = << "True", stream >>

\* the write failed and get returned the failure pair
C21_WriteFailedReached ==
  op = "get" /\ pc = "dv_returned" /\ Len(events) = 1 /\ ret = << "False", None >>


\* position i of the wire holds cmd, handed to the socket with success
SentAt(i, cmd) == i \in 1..Len(wire) /\ wire[i].cmd = cmd /\ wire[i].ok

\* C22: the order of an acquisition in start_measurement.  *RST and *CLS
\* are sent before the first configuration command; *TRG is sent only
\* after every configuration command of the sequence has been written and
\* has passed its error query; FETC? is sent only after *TRG and after the
\* completion wait has ended.
C22_AcquisitionOrder ==
  op = "start_measurement" =>
    \A i \in 1..Len(wire) :
      /\ wire[i].cmd \in SetupCmdSet =>
           \E j \in 1..(i - 1), k \in 1..(i - 1) :
             j < k /\ wire[j].cmd = "*RST" /\ wire[k].cmd = "*CLS"
      /\ wire[i].cmd = "*TRG" =>
           /\ idx = Len(SetupCmds(measure))
           /\ \A n \in 1..Len(SetupCmds(measure)) :
                /\ SentAt(i - 2 * (Len(SetupCmds(measure)) - n) - 2, SetupCmds(measure)[n])
                /\ SentAt(i - 2 * (Len(SetupCmds(measure)) - n) - 1, "SYSTem:ERRor?")
      /\ wire[i].cmd = "FETC?" =>
           /\ \E t \in 1..(i - 1) : wire[t].cmd = "*TRG"
           /\ pollLog # << >> /\ Last(pollLog) = "False"
           /\ \A t \in (i + 1)..Len(wire) : wire[t].cmd # "STAT:OPER:COND?"

\* a measurement that ran from the reset to the saved file
C22_Witness ==
  /\ op = "start_measurement" /\ pc = "done" /\ file # << >>
  /\ Attempted("*RST") /\ Attempted("*TRG") /\ Attempted("FETC?")


\* sendall has raised socket.error on some command of the session
SendFailed == \E i \in 1..Len(wire) : ~wire[i].ok

\* a step of the completion wait, or one that hands *TRG or FETC? to write
AcquisitionCommandStep ==
  /\ Len(wire') = Len(wire) + 1
  /\ \/ Last(wire').cmd \in {"*TRG", "FETC?"}
     \/ pc = "tf_poll"

\* C23: Validated and Failed are terminal.  Once the acquisition has failed
\* (a CommandError during configuration, a transport error that cannot be
\* recovered, a count mismatch) no trigger, poll or fetch command is sent
\* for it afterwards, and validated data is written exactly once.
C23_NothingSentAfterFailure ==
  /\ [][(op = "start_measurement" /\ (pc = "failed" \/ reported \/ SendFailed))
          => ~AcquisitionCommandStep]_vars
  /\ [][nSinkWrites > 0 => (file' = file /\ wire' = wire)]_vars

\* The part of C23 that the code keeps: an exception that left the
\* operation and a count mismatch end the acquisition, and the data is
\* written at most once, with nothing sent afterwards.
C23_RaisedIsTerminal ==
  /\ [][(pc = "failed" \/ reported) => (wire' = wire /\ file' = file)]_vars
  /\ [][nSinkWrites > 0 => (file' = file /\ wire' = wire)]_vars

\* the trigger was not sent (socket.error in sendall) and the wait loop polls
C23_PollAfterFailedTrigger ==
  /\ op = "start_measurement" /\ pc = "tf_poll" /\ nPolls > 0
  /\ \E i \in 1..Len(wire) : wire[i].cmd = "*TRG" /\ ~wire[i].ok


\* the last status query of the wait loop reached the instrument over
\* socket 1, its recv ended with socket.timeout and the socket is still
\* in use: the answer to that query has not been received
ResponseOutstanding ==
  /\ pc = "tf_poll" /\ conn[1]
  /\ wire # << >> /\ Last(wire).cmd = "STAT:OPER:COND?" /\ Last(wire).ok
  /\ pollLog # << >> /\ Last(pollLog) = "None"

\* C24: at most one request is outstanding on a connection: nothing is
\* written to a socket while the response to an earlier query on that
\* socket has not been received, also after a poll whose read timed out.
C24_OneOutstandingRequest ==
  [][ResponseOutstanding => wire' = wire]_vars

\* a second status query was handed to the socket after a poll timed out
C24_SecondQueryReached ==
  /\ pc \in {"tf_poll", "tf_show"} /\ Len(pollLog) >= 2
  /\ pollLog[Len(pollLog) - 1] = "None"
  /\ wire[Len(wire) - 1].cmd = "STAT:OPER:COND?" /\ wire[Len(wire) - 1].ok
  /\ Last(wire).cmd = "STAT:OPER:COND?" /\ Last(wire).ok


\* ----------------------------------- trigger_and_fetch called on its own
\* trigger_and_fetch(device, settings, progress) on a configured, connected
\* meter; progress is the caller's choice
ProgressInit ==
  /\ op = "trigger_and_fetch"
  /\ measure = "CURR"
  /\ duration \in Durations
  /\ sample_rate \in SampleRates
  /\ fileExists \in BOOLEAN
  /\ progress \in BOOLEAN
  /\ eof = FALSE
  /\ pc = "tf_start"
  /\ exc = "none"
  /\ conn = [m \in {1, 2} |-> m = 1]
  /\ idx = Len(SetupCmds(measure))
  /\ wire = << >>
  /\ bit = "unset"
  /\ measK = 0
  /\ measLeft = 0
  /\ nPolls = 0
  /\ pollLog = << >>
  /\ instrReadings = 0
  /\ stream = << >>
  /\ block = << >>
  /\ data = << >>
  /\ file = << >>
  /\ nSinkWrites = 0
  /\ reported = FALSE
  /\ sockOpened = 2
  /\ sockClosed = 0
  /\ expected_points = 0
  /\ data_count = 0
  /\ chunk = 0
  /\ drained = 0
  /\ connectCalls = 0
  /\ timeouts = 0
  /\ gotData = FALSE
  /\ payload = << >>
  /\ file_size = 0
  /\ header = NoHeader
  /\ arg = << >>
  /\ ret = "none"
  /\ events = << >>
  /\ error = "None"
  /\ tracking = TRUE

ProgressNext ==
  \/ TriggerAndFetch
  \/ Poll
  \/ ShowOpReg("tf_show", "ged_start")
  \/ GetExistingData
  \/ GetMeter(2, "ged_get_meter", "ged_idn")
  \/ GetIdn(2, "ged_idn", "rf_write")
  \/ ReadDataWithFetchWrite
  \/ ReadDataWithFetchRecv
  \/ Validate

ProgressSpec == ProgressInit /\ [][ProgressNext]_vars

\* C25: the progress observer never affects control flow: with the same
\* instrument behaviour trigger_and_fetch sends the same commands and
\* reaches the same outcome with progress=True and with progress=False,
\* so every step it takes with one value of progress is a step it can
\* take with the other value.
C25_ProgressIsObservational ==
  [][Poll => PollAs(~progress)]_vars

\* The part of C25 that the code keeps: up to the end of the wait loop the
\* commands sent do not depend on progress, and with progress=True the
\* progress bar never ends the operation.
C25_SameUntilLoopExit ==
  /\ [][(Poll /\ pc' = "tf_poll") => PollAs(~progress)]_vars
  /\ [](progress => exc # "UnboundLocalError")

\* progress=False: the wait loop was left and pbar.close() raised
C25_UnboundLocalReached ==
  /\ ~progress /\ pc = "failed" /\ exc = "UnboundLocalError"
  /\ pollLog # << >> /\ Last(pollLog) = "False"

\* progress=True: the same wait went on to the fetch and the file
C25_FetchedWithProgress ==
  progress /\ pc = "done" /\ Attempted("FETC?") /\ file # << >>


C26_WrittenToNewFile ==
  op = "get_existing_data" /\ ~fileExists /\ pc = "done" /\ file # << >>


\* a pass of the fetch loop whose recv delivered no byte: it raised
\* socket.timeout or socket.error, or the peer has closed the connection
FetchRecvFailed == pc = "rf_recv" /\ block' = block

\* C27: in trigger-and-fetch a receive timeout or other transport failure
\* during the bulk fetch is fatal to the acquisition: it is surfaced to the
\* caller, no reconnect or retry is made and no data is written.
C27_FetchFailureIsFatal ==
  /\ [][FetchRecvFailed =>
          /\ pc' = "failed" /\ exc' \in {"socket.timeout", "socket.error"}
          /\ wire' = wire /\ sockOpened' = sockOpened]_vars
  /\ [][(pc = "rf_recv" /\ ~conn[2]) => pc' = "failed"]_vars
  /\ [](exc \in {"socket.timeout", "socket.error"} =>
          (pc = "failed" /\ file = << >> /\ nSinkWrites = 0))

\* The part of C27 that the code keeps: an exception raised by recv leaves
\* the operation, after which nothing is sent, opened or written; a failed
\* send of FETC? is followed by a recv that raises.
C27_RaisedFetchIsFatal ==
  /\ [][(FetchRecvFailed /\ ~eof') =>
          /\ pc' = "failed" /\ exc' \in {"socket.timeout", "socket.error"}
          /\ wire' = wire /\ sockOpened' = sockOpened]_vars
  /\ [][(pc = "rf_recv" /\ ~conn[2]) => pc' = "failed"]_vars
  /\ []((exc \in {"socket.timeout", "socket.error"} \/ eof) =>
          (file = << >> /\ nSinkWrites = 0))
  /\ [][(pc = "failed" \/ eof) => (wire' = wire /\ sockOpened' = sockOpened)]_vars

\* the instrument closed the connection during the fetch: the loop goes on
C27_SpinsOnClosedConnection ==
  /\ pc = "rf_recv" /\ eof /\ conn[2] /\ exc = "none"
  /\ Last(wire).cmd = "FETC?" /\ Last(wire).ok

\* recv timed out during the fetch and the exception left the operation
C27_TimeoutSurfaced ==
  pc = "failed" /\ exc = "socket.timeout" /\ Last(wire).cmd = "FETC?"


\* meter objects whose socket is connected and not yet closed
OpenMeters == { m \in {1, 2} : conn[m] }

\* C28: at any moment of a session at most one socket to the instrument is
\* open: constructing a Multimeter34465a opens exactly one connection, and
\* start_measurement with trigger_and_fetch and get_existing_data never
\* holds two open connections to the instrument at the same time.
C28_AtMostOneSocket ==
  /\ Cardinality(OpenMeters) <= 1
  /\ pc = "sm_idn" => sockOpened = 1
  /\ pc = "ged_idn" => sockOpened = (IF op = "start_measurement" THEN 2 ELSE 1)

\* get_existing_data, called by trigger_and_fetch, has connected a second
\* meter object while the meter of start_measurement is still connected
C28_TwoMetersConnected ==
  /\ op = "start_measurement" /\ pc = "rf_write"
  /\ conn[1] /\ conn[2] /\ sockClosed = 0

\* one constructor call has connected twice
C28_ConstructorConnectsTwice ==
  op = "get_existing_data" /\ pc = "ged_idn" /\ conn[2] /\ sockOpened = 2


\* ---------------------------------------------- send_commands on its own
\* the three send_commands of the source: the function of the 34465a module,
\* the method of MultimeterDMM6500, the function of the older scpiProject
SendVersions == { "scpi_project.34465a", "scpi_project.DMM6500", "scpiProject.34465a" }

\* two of the commands current_measure_setup of the DMM6500 sends
CmdNames == { ":SENS:DIG:FUNC \"CURR\"", ":TRACe:POINts 10, \"defbuffer1\"" }

RECURSIVE CmdLists(_)
CmdLists(n) ==
  IF n = 0 THEN { << >> }
  ELSE CmdLists(n - 1)
         \cup { Append(l, c) : l \in { k \in CmdLists(n - 1) : Len(k) = n - 1 },
                               c \in CmdNames }

\* the cmds argument: a list of commands (items) or, as set_beep passes
\* it, one str (text)
CmdArgs(version) ==
  { [class |-> "list", text |-> "", items |-> l] : l \in CmdLists(MaxCmds) }
    \cup (IF version = "scpi_project.DMM6500"
          THEN { [class |-> "str", text |-> "SYST:BEEP 500,0.2", items |-> << >>] }
          ELSE { })

\* DMM6500: "if cmds.__class__ is not list: cmds = [cmds]"; the two
\* functions iterate over cmds as it is
CmdList(cmds) == IF cmds.class # "list" THEN << cmds.text >> ELSE cmds.items

\* DMM6500: self._write(":SYSTem:CLEar") before each command
ClearsFirst(version) == version = "scpi_project.DMM6500"

\* get_error: the query sent
ErrorQuery(version) ==
  IF version = "scpi_project.DMM6500" THEN ":SYSTem:ERRor:NEXT?" ELSE "SYSTem:ERRor?"

\* answers of the DMM6500 to :SYSTem:ERRor:NEXT?
DmmNoErrorText == << "0", ",", "\"No error;0;0 0\"", "\n" >>
DmmErrorTexts == { << "-", "1", "1", "3", ",", "\"Undefined header;1;2020\"", "\n" >> }
DmmErrorQueueTexts == { DmmNoErrorText } \cup DmmErrorTexts \cup MalformedTexts

ErrorAnswers(version) ==
  IF version = "scpi_project.DMM6500" THEN DmmErrorQueueTexts ELSE ErrorQueueTexts

\* every answer counts as clean
NoErrorIn_Always(field) == TRUE

\* DMM6500: '"No error" in error', on the stripped second field
NoErrorIn(field) ==
  \E i \in 1..Len(field) : field[i] \in { "\"No error\"", "\"No error;0;0 0\"" }

\* DMM6500 send_commands, after the write:
\*   error = self.get_error()[1].decode().split(',')[1].strip()
\*   if "No error" not in error: raise CommandError(msg)
DmmErrorCheck(value) ==
  IF value = None THEN "AttributeError"
  ELSE LET fields == Split(value, ",")
       IN  IF Len(fields) < 2 THEN "IndexError"
           ELSE IF ~NoErrorIn(Strip(fields[2])) THEN "CommandError"
           ELSE "clean"

\* the check of the answer in each version; the older function prints the
\* error and calls sys.exit(1)
CheckOutcome(version, value) ==
  CASE version = "scpi_project.DMM6500" -> DmmErrorCheck(value)
    [] version = "scpi_project.34465a" -> ErrorCheck(value)
    [] OTHER -> IF ErrorCheck(value) = "CommandError" THEN "SystemExit"
                ELSE ErrorCheck(value)

\* "if write_state is False": raise CommandError; the older function only
\* logs "Device write error." and goes on
WriteFailureRaises(version) == version # "scpiProject.34465a"

SendStart ==
  /\ op \in SendVersions
  /\ arg \in CmdArgs(op)
  /\ conn \in { [m \in {1, 2} |-> m = 1 /\ c] : c \in BOOLEAN }
  /\ sockOpened = 1
  /\ pc = "sd_call"
  /\ tracking = TRUE
  /\ measure = "CURR"
  /\ duration = 1
  /\ sample_rate = 1
  /\ fileExists = FALSE
  /\ progress = TRUE
  /\ eof = FALSE
  /\ exc = "none"
  /\ idx = 0
  /\ wire = << >>
  /\ bit = "unset"
  /\ measK = 0
  /\ measLeft = 0
  /\ nPolls = 0
  /\ pollLog = << >>
  /\ instrReadings = 0
  /\ stream = << >>
  /\ block = << >>
  /\ data = << >>
  /\ file = << >>
  /\ nSinkWrites = 0
  /\ reported = FALSE
  /\ sockClosed = 0
  /\ expected_points = 0
  /\ data_count = 0
  /\ chunk = 0
  /\ drained = 0
  /\ connectCalls = 0
  /\ timeouts = 0
  /\ gotData = FALSE
  /\ payload = << >>
  /\ file_size = 0
  /\ header = NoHeader
  /\ ret = "none"
  /\ events = << >>
  /\ error = "None"

sendRest == << inputs, waitVars, fetchVars, sinkVars, sockets, drainVars, blockVars,
               arg, ret, error >>

\* where the body of "for cmd in cmds" starts
LoopBody(version) == IF ClearsFirst(version) THEN "sd_clear" ELSE "sd_write"

\* the send_commands that runs: current_measure_setup of the DMM6500 calls
\* self.send_commands(cmds)
SendVersion ==
  IF op = "DMM6500.current_measurement" THEN "scpi_project.DMM6500" ELSE op

\* where send_commands returns to: current_measure_setup goes on to the
\* trigger, a direct call is over
AfterSendCommands ==
  IF op = "DMM6500.current_measurement" THEN "cm_trigger" ELSE "done"

\* send_commands(cmds): the wrap of a single str, then the first command
SendCall ==
  /\ pc = "sd_call"
  /\ IF Len(CmdList(arg)) = 0
     THEN pc' = AfterSendCommands /\ idx' = idx
     ELSE pc' = LoopBody(SendVersion) /\ idx' = 1
  /\ UNCHANGED << sendRest, exc, conn, wire, events >>

\* DMM6500: self._write(":SYSTem:CLEar"), its result ignored
SendClear ==
  /\ pc = "sd_clear"
  /\ PlainWrite(1, ":SYSTem:CLEar")
  /\ pc' = "sd_write"
  /\ UNCHANGED << sendRest, exc, idx, events >>

\* write_state = write(cmd); "if write_state is False"
SendWrite ==
  /\ pc = "sd_write"
  /\ \E ok \in WriteResults(conn[1]) :
       /\ wire' = Sent(CmdList(arg)[idx], ok)
       /\ conn' = [conn EXCEPT ![1] = ok]
       /\ IF ok \/ ~WriteFailureRaises(SendVersion)
          THEN pc' = "sd_check" /\ exc' = exc
          ELSE Raise("CommandError")
  /\ UNCHANGED << sendRest, idx, events >>

\* the error query after the command, its check, and the next command
SendCheck ==
  /\ pc = "sd_check"
  /\ \E q \in GetResults(conn[1], ErrorAnswers(SendVersion)) :
       /\ wire' = Sent(ErrorQuery(SendVersion), q.sent)
       /\ conn' = [conn EXCEPT ![1] = q.up]
       /\ events' = Append(events,
                      Ev("check", CheckOutcome(SendVersion, q.value) = "clean", 0, q.value))
       /\ IF CheckOutcome(SendVersion, q.value) # "clean"
          THEN Raise(CheckOutcome(SendVersion, q.value)) /\ idx' = idx
          ELSE /\ exc' = exc
               /\ IF MoreCmds(idx, CmdList(arg))
                  THEN pc' = LoopBody(SendVersion) /\ idx' = idx + 1
                  ELSE pc' = AfterSendCommands /\ idx' = idx
  /\ UNCHANGED sendRest

SendNext == SendCall \/ SendClear \/ SendWrite \/ SendCheck

SendSpec == SendStart /\ [][SendNext]_vars


\* the commands send_commands was asked to send, one str counting as one
Requested == IF arg.class = "str" THEN << arg.text >> ELSE arg.items

\* C29: DMM6500 send_commands.  For each command of the sequence the wire
\* order is :SYSTem:CLEar, the command, exactly one :SYSTem:ERRor:NEXT?;
\* the clear of the next command is sent only after the error query of the
\* command before has returned clean; a single string argument is treated
\* as a sequence of one command.
C29_ClearCommandQuery ==
  op = "scpi_project.DMM6500" =>
    /\ Len(wire) <= 3 * Len(Requested)
    /\ Len(events) = Len(wire) \div 3
    /\ \A i \in 1..Len(wire) :
         /\ i % 3 = 1 =>
              /\ wire[i].cmd = ":SYSTem:CLEar"
              /\ i > 1 => /\ wire[i - 1].ok
                          /\ events[(i - 1) \div 3].bytes = DmmNoErrorText
         /\ i % 3 = 2 => wire[i].cmd = Requested[(i + 1) \div 3]
         /\ i % 3 = 0 => /\ wire[i].cmd = ":SYSTem:ERRor:NEXT?"
                         /\ wire[i - 1].ok
    /\ pc = "done" =>
         /\ Len(wire) = 3 * Len(Requested)
         /\ \A n \in 1..Len(events) : events[n].bytes = DmmNoErrorText

\* two commands were sent, each between its clear and its query
C29_Witness ==
  /\ op = "scpi_project.DMM6500" /\ arg.class = "list" /\ Len(arg.items) = 2
  /\ pc = "done" /\ Len(wire) = 6

\* send_commands("SYST:BEEP 500,0.2") has sent the one command
C29_SingleStringReached ==
  /\ op = "scpi_project.DMM6500" /\ arg.class = "str" /\ pc = "done"
  /\ Len(wire) = 3 /\ wire[2].cmd = arg.text

\* the socket write of a command of the sequence has failed
CommandWriteFailed ==
  \E i \in 1..Len(wire) :
    ~wire[i].ok /\ wire[i].cmd \notin {":SYSTem:CLEar", ErrorQuery(op)}

\* C30: when the socket write of a command fails inside send_commands the
\* operation ends at once with a CommandError: the error query for that
\* command is not issued and no later command of the sequence is written.
C30_WriteFailureEndsAtOnce ==
  /\ [](CommandWriteFailed => (pc = "failed" /\ exc = "CommandError"))
  /\ [][CommandWriteFailed => wire' = wire]_vars

\* The part of C30 that the code keeps: the send_commands of the two
\* modules of scpi_project end with CommandError on a failed write.
C30_CurrentModulesEndAtOnce ==
  /\ [](op # "scpiProject.34465a" =>
          (CommandWriteFailed => (pc = "failed" /\ exc = "CommandError")))
  /\ [][(op # "scpiProject.34465a" /\ CommandWriteFailed) => wire' = wire]_vars

\* the older send_commands has gone on to the error query after the write
\* of the command failed
C30_QueryAfterFailedWrite ==
  /\ op = "scpiProject.34465a" /\ Len(wire) = 2
  /\ ~wire[1].ok /\ wire[2].cmd = "SYSTem:ERRor?"
  /\ pc = "failed" /\ exc = "AttributeError"

\* the send_commands of the 34465a module has raised on the failed write
C30_RaisedReached ==
  /\ op = "scpi_project.34465a" /\ Len(wire) = 1 /\ ~wire[1].ok
  /\ pc = "failed" /\ exc = "CommandError"


\* --------------------------------------- read_data_with_fetch on its own
\* read_data_with_fetch(device) of the 34465a module and read_data(buffer)
\* of MultimeterDMM6500, which read with the same loop; the test of the
\* while loop and the recv of its body are separate steps
FetchOps == { "read_data_with_fetch", "DMM6500.read_data" }

\* answers to :TRACe:ACTual:END? : the last index of the buffer, or nothing
IndexTexts == { << "3", "\n" >>, << >> }

\* the query whose answer is read by the loop
FetchCmd(version) ==
  IF version = "DMM6500.read_data" THEN ":TRACE:DATA?" ELSE "FETC?"

\* DMM6500: float(x) raises ValueError unless x is a number
FloatOk(x) ==
  /\ x # << >>
  /\ \A i \in 1..Len(x) : x[i] \in {"0", "1", "2", "3", "4", "5", "6", "7", "8", "9"}

\* DMM6500: block.decode().strip().replace("\n", ",").split(",")
DmmData(blk) ==
  Split([i \in 1..Len(Strip(blk)) |->
           IF Strip(blk)[i] = "\n" THEN "," ELSE Strip(blk)[i]], ",")

FetchStart ==
  /\ op \in FetchOps
  /\ conn \in { [m \in {1, 2} |-> m = 1 /\ c] : c \in BOOLEAN }
  /\ sockOpened = 1
  /\ pc = (IF op = "DMM6500.read_data" THEN "ft_index" ELSE "ft_write")
  /\ tracking = TRUE
  /\ measure = "CURR"
  /\ duration = 1
  /\ sample_rate = 1
  /\ fileExists = FALSE
  /\ progress = TRUE
  /\ eof = FALSE
  /\ exc = "none"
  /\ idx = 0
  /\ wire = << >>
  /\ bit = "unset"
  /\ measK = 0
  /\ measLeft = 0
  /\ nPolls = 0
  /\ pollLog = << >>
  /\ instrReadings = 0
  /\ stream = << >>
  /\ block = << >>
  /\ data = << >>
  /\ file = << >>
  /\ nSinkWrites = 0
  /\ reported = FALSE
  /\ sockClosed = 0
  /\ expected_points = 0
  /\ data_count = 0
  /\ chunk = 0
  /\ drained = 0
  /\ connectCalls = 0
  /\ timeouts = 0
  /\ gotData = FALSE
  /\ payload = << >>
  /\ file_size = 0
  /\ header = NoHeader
  /\ arg = << >>
  /\ ret = "none"
  /\ events = << >>
  /\ error = "None"

fetchRest == << inputs, idx, waitVars, sinkVars, sockets, drainVars, blockVars,
                deviceVars >>

\* the function that reads: current_measurement of the DMM6500 calls
\* self.read_data(buffer)
FetchVersion ==
  IF op = "DMM6500.current_measurement" THEN "DMM6500.read_data" ELSE op

\* where the read returns to: current_measurement goes on to save the data
AfterFetch == IF op = "DMM6500.current_measurement" THEN "cm_save" ELSE "done"

\* DMM6500: last_index = self.get(':TRACe:ACTual:END? ...')[1].decode().strip()
FetchIndex ==
  /\ pc = "ft_index"
  /\ \E q \in GetResults(conn[1], IndexTexts) :
       /\ wire' = Sent(":TRACe:ACTual:END?", q.sent)
       /\ conn' = [conn EXCEPT ![1] = q.up]
       /\ IF q.value = None THEN Raise("AttributeError")
          ELSE pc' = "ft_write" /\ exc' = exc
  /\ UNCHANGED << fetchRest, fetchVars >>

\* device.write('FETC?') (DMM6500: self._write(':TRACE:DATA? ...')), its
\* result ignored; block = b''
FetchWrite ==
  /\ pc = "ft_write"
  /\ PlainWrite(1, FetchCmd(FetchVersion))
  /\ instrReadings' \in (IF conn'[1] THEN 0..MaxFetch ELSE {0})
  /\ stream' = (IF instrReadings' > 0 THEN FetchText(instrReadings') ELSE << >>)
  /\ block' = << >>
  /\ pc' = "ft_test"
  /\ UNCHANGED << fetchRest, exc, data, eof >>

\* "while not block.endswith(b'\n')", and after the loop
\* data = block.decode().strip().split(",") (DMM6500: the split and
\* float(x) for each piece)
FetchTest ==
  /\ pc = "ft_test"
  /\ IF ~EndsWithNewline(block)
     THEN pc' = "ft_recv" /\ UNCHANGED << data, exc >>
     ELSE IF FetchVersion # "DMM6500.read_data"
     THEN pc' = AfterFetch /\ data' = FetchedData(block) /\ exc' = exc
     ELSE IF \A i \in 1..Len(DmmData(block)) : FloatOk(DmmData(block)[i])
     THEN pc' = AfterFetch /\ data' = DmmData(block) /\ exc' = exc
     ELSE Raise("ValueError") /\ data' = data
  /\ UNCHANGED << fetchRest, conn, wire, instrReadings, stream, block, eof >>

\* "block += device.sock.recv(100000)": some bytes, socket.timeout, another
\* socket.error, or b'' from a connection the peer has closed
FetchRecv ==
  /\ pc = "ft_recv"
  /\ \/ /\ conn[1] /\ ~eof
        /\ \E k \in 1..Len(stream) :
             /\ block' = block \o SubSeq(stream, 1, k)
             /\ stream' = SubSeq(stream, k + 1, Len(stream))
        /\ pc' = "ft_test"
        /\ UNCHANGED << exc, conn, eof >>
     \/ /\ conn[1] /\ ~eof
        /\ Raise("socket.timeout")
        /\ UNCHANGED << conn, stream, block, eof >>
     \/ /\ ~eof
        /\ Raise("socket.error")
        /\ conn' = [conn EXCEPT ![1] = FALSE]
        /\ UNCHANGED << stream, block, eof >>
     \/ /\ conn[1]
        /\ eof' = TRUE
        /\ stream' = << >>
        /\ block' = block \o << >>
        /\ pc' = "ft_test"
        /\ UNCHANGED << exc, conn >>
  /\ UNCHANGED << fetchRest, wire, instrReadings, data >>

FetchNext == FetchIndex \/ FetchWrite \/ FetchTest \/ FetchRecv

\* the function runs on as long as it can take a step
FairFetchSpec == FetchStart /\ [][FetchNext]_vars /\ WF_vars(FetchNext)

\* C31: the bulk fetch reads until the terminator is observed and always
\* terminates: read_data_with_fetch ends, with data or with an error, under
\* every instrument behaviour, also when the peer closes the connection and
\* the reads return zero bytes.
C31_FetchAlwaysEnds == <>(pc \in {"done", "failed"})

\* The part of C31 that the code keeps: what is returned is the
\* concatenation of all reads up to the first read that ends with a
\* newline, split at the commas.
C31_ReturnsConcatenation ==
  /\ pc = "done" =>
       /\ EndsWithNewline(block)
       /\ block \o stream = FetchText(instrReadings)
       /\ data = Split(Strip(block), ",")
  /\ (pc = "ft_recv" \/ exc # "none") => ~EndsWithNewline(block)

\* the peer has closed the connection and the loop has come round again
C31_ZeroByteReadReached ==
  /\ pc = "ft_recv" /\ eof /\ conn[1] /\ exc = "none"
  /\ Last(wire).cmd = FetchCmd(op) /\ Last(wire).ok

\* three readings have been returned
C31_ReturnedReached ==
  pc = "done" /\ Len(data) = 3 /\ stream = << >>


\* a status poll of the wait loop was answered with the Measuring bit clear
ClearedPollSeen == pollLog # << >> /\ Last(pollLog) = "False"

\* start_measurement takes no further step
SessionOver == pc \in {"done", "failed"}

\* C32: liveness of the completion wait.  If the instrument answers a
\* status poll with the Measuring bit cleared, the polling loop exits and
\* the bulk fetch is issued; so a start_measurement that is over after such
\* a poll has handed FETC? to the socket.
C32_FetchAfterClearedPoll ==
  (op = "start_measurement" /\ ClearedPollSeen /\ SessionOver)
    => (pc = "done" /\ Attempted("FETC?"))

\* The part of C32 that the code keeps: the poll that is answered with the
\* bit cleared is the last pass of the loop, and no poll follows it.
C32_LoopExitsOnClearedPoll ==
  /\ [][(PollStep /\ bit' = "False") => pc' = "tf_show"]_vars
  /\ [](ClearedPollSeen => pc # "tf_poll")

\* the loop was left on a cleared bit and show_op_reg, whose status query
\* got no answer in time, ended the operation before the fetch
C32_EndedInShowOpReg ==
  /\ op = "start_measurement" /\ ClearedPollSeen
  /\ pc = "failed" /\ exc = "AttributeError"
  /\ Last(wire).cmd = "STAT:OPER:COND?" /\ Last(wire).ok
  /\ ~Attempted("FETC?")

\* the loop was left on a cleared bit and the fetch was issued
C32_FetchIssuedReached ==
  op = "start_measurement" /\ ClearedPollSeen /\ pc = "done" /\ Attempted("FETC?")


\* the block declares more bytes than it holds
Truncated(blk) ==
  LET h == parse_block_header(blk)
  IN  h.outcome = "ok" /\ h.num_expected_bytes > h.num_actual_bytes

\* read_data has counted the fields of the block and appended them
FrameAccepted ==
  /\ pc' = "rd_loop"
  /\ data_count' = data_count + Len(BlockList(block, parse_block_header(block).data_start))
  /\ file' = file \o BlockList(block, parse_block_header(block).data_start)

\* C33: a mismatch between the declared and the actual byte length of a
\* drained block is a recoverable warning: read_data still accepts the
\* frame, except when the declared length has not been met (truncation);
\* then the samples of the frame are not counted and not written.
C33_TruncatedFrameDropped ==
  /\ [][(pc = "rd_parse" /\ Truncated(block)) =>
          (data_count' = data_count /\ file' = file)]_vars
  /\ [][(pc = "rd_parse" /\ ByteCountError(block) /\ ~Truncated(block)) =>
          FrameAccepted]_vars

\* The part of C33 that the code keeps: a mismatch ends nothing, and the
\* frame is accepted whenever its declared length is not 0, truncated or
\* not.
C33_MismatchOnlyLogged ==
  [][(pc = "rd_parse" /\ ByteCountError(block)) =>
       IF parse_block_header(block).num_expected_bytes # 0
       THEN FrameAccepted
       ELSE pc' = "rd_loop" /\ data_count' = data_count /\ file' = file]_vars

\* a truncated block has been counted and written
C33_TruncatedCountedReached ==
  /\ pc = "rd_loop" /\ data_count > 0 /\ file # << >>
  /\ Truncated(block)


\* Python's a / b, kept exact as a fraction
TrueDiv(a, b) == [num |-> a, den |-> b]

\* current_measure_setup / voltage_measure_setup:
\*   num_samples = settings['duration'] / settings['sample_rate']
\* the value formatted into 'SAMP:COUNT {}'
SampCount == TrueDiv(duration, sample_rate)

\* the fraction q and the integer n are the same number
SameNumber(q, n) == q.num = n * q.den

\* SAMP:COUNT has been handed to the socket with success
CountSent == \E i \in 1..Len(wire) : wire[i].cmd = "SAMP:COUNT" /\ wire[i].ok

\* C34: the sample count configured on the instrument equals the count the
\* fetched series is validated against: for every duration and sample_rate
\* the value sent in SAMP:COUNT is the same number as the num_samples that
\* get_existing_data compares len(data) with, also when duration is not an
\* exact multiple of sample_rate.
C34_ConfiguredCountIsCheckedCount ==
  (op = "start_measurement" /\ CountSent)
    => SameNumber(SampCount, num_samples)

\* duration 3 at sample_rate 2: SAMP:COUNT 1.5 was sent and a series of
\* int(1.5) = 1 reading was accepted
C34_FractionSentReached ==
  /\ op = "start_measurement" /\ duration = 3 /\ sample_rate = 2
  /\ CountSent /\ pc = "done" /\ Len(file) = 1

\* duration 2 at sample_rate 2: both counts are 1
C34_ExactMultipleReached ==
  /\ op = "start_measurement" /\ duration = 2 /\ sample_rate = 2
  /\ CountSent /\ SameNumber(SampCount, num_samples)


\* the block parsed in this step declares the length 0
ZeroLengthBlock ==
  /\ parse_block_header(block).outcome = "ok"
  /\ parse_block_header(block).num_expected_bytes = 0

\* C35: in read_data the running sample count always equals the number of
\* lines appended to the output file so far and never decreases; a block
\* with declared length 0 and an iteration that ended in a timeout add
\* nothing to the count and write nothing to the file.
C35_CountIsLinesWritten ==
  /\ [](data_count = Len(file))
  /\ [][data_count' >= data_count /\ Len(file') >= Len(file)]_vars
  /\ [][(pc = "rd_parse" /\ ZeroLengthBlock) =>
          (data_count' = data_count /\ file' = file)]_vars
  /\ [][TimeoutStep => (data_count' = data_count /\ file' = file)]_vars

\* samples were counted and written, and a later iteration ended in a
\* timeout
C35_Witness ==
  /\ pc = "rd_loop" /\ data_count > 0 /\ Len(file) = data_count
  /\ timeouts > 0 /\ block = << >>

\* a block of declared length 0 was parsed and nothing was counted
C35_ZeroLengthReached ==
  /\ pc = "rd_loop" /\ block # << >> /\ ZeroLengthBlock
  /\ data_count = 0 /\ file = << >>


\* read_data is at the head of its loop after a timeout whose
\* device.connect() returned False
ReconnectFailed == pc = "rd_loop" /\ timeouts > 0 /\ ~conn[1]

\* C36: if the reconnect made by read_data after a timeout fails, the drain
\* stops and the failure is reported to the caller; read_data sends no
\* further R? request and does not read on a socket that is not connected.
C36_StopsAfterFailedReconnect ==
  [][ReconnectFailed => (wire' = wire /\ pc' \in {"rd_done", "failed"})]_vars

\* The part of C36 that the code keeps: the drain does end after a failed
\* reconnect, with the socket.error of the recv on the unconnected socket,
\* and nothing more is counted or written.
C36_EndsInSocketError ==
  /\ [][(pc = "rd_recv" /\ ~conn[1]) =>
          (pc' = "failed" /\ exc' = "socket.error" /\ wire' = wire)]_vars
  /\ [][~conn[1] => (data_count' = data_count /\ file' = file)]_vars

\* R? was handed to the unconnected socket and recv is called on it
C36_RequestOnUnconnectedReached ==
  /\ pc = "rd_recv" /\ ~conn[1] /\ timeouts > 0
  /\ Last(wire).cmd = "R?" /\ ~Last(wire).ok
  /\ Len(wire) >= 2 /\ wire[Len(wire) - 1].ok


\* ------------------------------------ DMM6500: current_measurement on its own
\* the cmds list of current_measure_setup of the DMM6500; the values
\* formatted into the last four commands are left out of the text
DmmSetupCmds ==
  << ":SENS:DIG:FUNC \"CURR\"", ":TRACe:POINts 10, \"defbuffer1\"",
     ":TRACe:POINts 10, \"defbuffer2\"", ":TRACe:MAKE", ":SENS:DIG:CURR:RANG",
     ":SENS:DIG:CURR:SRATE", ":SENS:DIG:COUN" >>

\* self._write(f':TRACe:TRIG:DIG "{settings["buffer"]}"')
TriggerCmd == ":TRACe:TRIG:DIG"

\* settings['count']
count == expected_points

\* answer of the DMM6500 to *IDN?
DmmIdnTexts == { << "KEITHLEY", ",", "DMM6500", "\n" >> }

\* self.socket_timeout = 10: the seconds a read that times out takes
socket_timeout == 10

\* the events of the wait loop: time.sleep(10) and get_idn()
Waits == SelectSeq(events, LAMBDA e : e.kind \in {"sleep", "idn"})

RECURSIVE SecsOf(_)
SecsOf(evs) == IF evs = << >> THEN 0 ELSE Head(evs).secs + SecsOf(Tail(evs))

\* time.time() - start_time
Elapsed == SecsOf(Waits)

\* the deadline without the 10 seconds of grace
Deadline_NoGrace(n, rate) == n \div rate

\* timeout = start_time + (settings['count'] // settings['sample_rate']) + 10,
\* as seconds after start_time
Deadline(n, rate) == n \div rate + 10

\* f"{data_point}" of float(x) for a text x of decimal digits
FloatText(x) == DecimalText(DecimalValue(x, 0)) \o << ".", "0" >>

DmmStart ==
  /\ op = "DMM6500.current_measurement"
  /\ arg = [class |-> "list", text |-> "", items |-> DmmSetupCmds]
  /\ expected_points \in {0, 10, MaxCount}
  /\ sample_rate \in {1, 2}
  /\ conn \in { [m \in {1, 2} |-> m = 1 /\ c] : c \in BOOLEAN }
  /\ sockOpened = 1
  /\ pc = "sd_call"
  /\ tracking = TRUE
  /\ measure = "CURR"
  /\ duration = 1
  /\ fileExists = FALSE
  /\ progress = TRUE
  /\ eof = FALSE
  /\ exc = "none"
  /\ idx = 0
  /\ wire = << >>
  /\ bit = "unset"
  /\ measK = 0
  /\ measLeft = 0
  /\ nPolls = 0
  /\ pollLog = << >>
  /\ instrReadings = 0
  /\ stream = << >>
  /\ block = << >>
  /\ data = << >>
  /\ file = << >>
  /\ nSinkWrites = 0
  /\ reported = FALSE
  /\ sockClosed = 0
  /\ data_count = 0
  /\ chunk = 0
  /\ drained = 0
  /\ connectCalls = 0
  /\ timeouts = 0
  /\ gotData = FALSE
  /\ payload = << >>
  /\ file_size = 0
  /\ header = NoHeader
  /\ ret = "none"
  /\ events = << >>
  /\ error = "None"

dmmRest == << inputs, idx, waitVars, fetchVars, sinkVars, sockets, drainVars,
              blockVars, arg, error >>

\* start_time = time.time(); self._write(':TRACe:TRIG:DIG ...'), its result
\* ignored; the deadline is computed
DmmTrigger ==
  /\ pc = "cm_trigger"
  /\ PlainWrite(1, TriggerCmd)
  /\ pc' = "cm_wait"
  /\ UNCHANGED << dmmRest, exc, ret, events >>

\* "while time.time() < timeout"; after the loop: return False, and
\* current_measurement does nothing more
DmmWaitTest ==
  /\ pc = "cm_wait"
  /\ IF Elapsed < Deadline(count, sample_rate)
     THEN pc' = "cm_sleep" /\ ret' = ret
     ELSE pc' = "done" /\ ret' = "False"
  /\ UNCHANGED << dmmRest, exc, conn, wire, events >>

\* time.sleep(10)
DmmSleep ==
  /\ pc = "cm_sleep"
  /\ events' = Append(events, Ev("sleep", TRUE, 10, << >>))
  /\ pc' = "cm_idn"
  /\ UNCHANGED << dmmRest, exc, conn, wire, ret >>

\* res = self.get_idn(); "if res[0] is True: return True", and
\* current_measurement goes on to read_data.  A read that times out takes
\* socket_timeout seconds.
DmmIdn ==
  /\ pc = "cm_idn"
  /\ \E q \in GetResults(conn[1], DmmIdnTexts) :
       /\ wire' = Sent("*IDN?", q.sent)
       /\ conn' = [conn EXCEPT ![1] = q.up]
       /\ events' = Append(events,
                      Ev("idn", q.state,
                         IF q.sent /\ ~q.state /\ q.up THEN socket_timeout ELSE 0,
                         q.value))
       /\ IF q.state
          THEN pc' = "ft_index" /\ ret' = "True"
          ELSE pc' = "cm_wait" /\ ret' = ret
  /\ UNCHANGED << dmmRest, exc >>

\* filename = get_filename(); print(sum(data) / len(data));
\* save_data_to_file(data, filename)
DmmSave ==
  /\ pc = "cm_save"
  /\ IF Len(data) = 0
     THEN Raise("ZeroDivisionError") /\ UNCHANGED << file, nSinkWrites >>
     ELSE /\ file' = AppendLines(file, [i \in 1..Len(data) |-> FloatText(data[i])])
          /\ nSinkWrites' = nSinkWrites + 1
          /\ pc' = "done"
          /\ exc' = exc
  /\ UNCHANGED << inputs, idx, waitVars, fetchVars, reported, sockets, drainVars,
                  blockVars, deviceVars, conn, wire >>

DmmNext ==
  \/ SendCall \/ SendClear \/ SendWrite \/ SendCheck
  \/ DmmTrigger \/ DmmWaitTest \/ DmmSleep \/ DmmIdn
  \/ FetchIndex \/ FetchWrite \/ FetchTest \/ FetchRecv
  \/ DmmSave

DmmSpec == DmmStart /\ [][DmmNext]_vars

\* the position of the first trigger write on the wire, 0 if there is none
TriggerAt ==
  IF Attempted(TriggerCmd)
  THEN CHOOSE i \in 1..Len(wire) :
         /\ wire[i].cmd = TriggerCmd
         /\ \A j \in 1..(i - 1) : wire[j].cmd # TriggerCmd
  ELSE 0

\* the checked configuration sequence went through: each of the seven
\* commands was cleared for, written and followed by an error query, every
\* write passed and every query answered "No error"
ConfigurationPassed(upTo) ==
  /\ upTo = 3 * Len(DmmSetupCmds)
  /\ \A k \in 1..Len(DmmSetupCmds) :
       /\ wire[3 * k - 2].cmd = ":SYSTem:CLEar"
       /\ wire[3 * k - 1] = [cmd |-> DmmSetupCmds[k], ok |-> TRUE]
       /\ wire[3 * k] = [cmd |-> ":SYSTem:ERRor:NEXT?", ok |-> TRUE]
  /\ Len(SelectSeq(events, LAMBDA e : e.kind = "check")) = Len(DmmSetupCmds)
  /\ \A i \in 1..Len(events) : events[i].kind = "check" => events[i].ok

\* a configuration command failed: its write failed, or the error query
\* after it did not answer "No error"
ConfigurationFailed ==
  \/ \E i \in 1..Len(events) : events[i].kind = "check" /\ ~events[i].ok
  \/ \E i \in 1..Len(wire) :
       /\ \E k \in 1..Len(DmmSetupCmds) : wire[i].cmd = DmmSetupCmds[k]
       /\ ~wire[i].ok

\* the *IDN? queries of the wait loop that have been issued
IdnQueries == SelectSeq(wire, LAMBDA w : w.cmd = "*IDN?")

\* the wait loop has slept and queried in turn, 10 seconds a sleep, one
\* query after each sleep
OneQueryPerIteration ==
  /\ \A i \in 1..Len(Waits) :
       IF i % 2 = 1 THEN Waits[i].kind = "sleep" /\ Waits[i].secs = 10
       ELSE Waits[i].kind = "idn"
  /\ Len(IdnQueries) = Len(Waits) \div 2
  /\ Len(Waits) % 2 = 1 <=> pc = "cm_idn"
  /\ \A i \in 1..Len(wire) : wire[i].cmd = "*IDN?" => i > TriggerAt /\ TriggerAt > 0

\* every iteration was entered before the deadline
EnteredBeforeDeadline ==
  \A i \in 1..Len(Waits) :
    Waits[i].kind = "sleep" =>
      SecsOf(SubSeq(Waits, 1, i - 1)) < count \div sample_rate + 10

\* C37: after the checked configuration sequence and the trigger write,
\* current_measure_setup of the DMM6500 issues one *IDN? query per 10 s
\* iteration, returns True at the first query that succeeds and False once
\* count // sample_rate + 10 seconds have passed since the trigger without
\* a success; current_measurement reads and saves data only if True was
\* returned, and the trigger is never written if a configuration command
\* failed.
C37_CompletionWait ==
  /\ [](/\ Attempted(TriggerCmd) => ConfigurationPassed(TriggerAt - 1)
        /\ ConfigurationFailed =>
             /\ ~Attempted(TriggerCmd)
             /\ pc = "failed"
             /\ exc \in {"CommandError", "AttributeError", "IndexError"}
        /\ OneQueryPerIteration
        /\ EnteredBeforeDeadline
        /\ (\E i \in 1..Len(Waits) : Waits[i].kind = "idn" /\ Waits[i].ok)
             <=> ret = "True"
        /\ ret = "True" =>
             \A i \in 1..Len(Waits) :
               (Waits[i].kind = "idn" /\ Waits[i].ok) <=> i = Len(Waits)
        /\ ret = "False" =>
             /\ Elapsed >= count \div sample_rate + 10
             /\ pc = "done"
             /\ Attempted(TriggerCmd)
        /\ (Attempted(":TRACe:ACTual:END?") \/ Attempted(":TRACE:DATA?")
              \/ file # << >> \/ nSinkWrites > 0) => ret = "True")
  /\ [][(pc = "cm_wait" /\ Elapsed >= count \div sample_rate + 10)
          => (ret' = "False" /\ wire' = wire /\ file' = file)]_vars
  /\ [][ret = "False" => UNCHANGED vars]_vars

\* the first query timed out, the second succeeded, and the data was read
\* and saved
C37_Witness ==
  /\ pc = "done" /\ ret = "True"
  /\ Len(IdnQueries) = 2
  /\ \E i \in 1..Len(Waits) : Waits[i].kind = "idn" /\ Waits[i].secs = 10
  /\ file # << >>

\* the deadline of 25 // 1 + 10 seconds passed without a success
C37_DeadlinePassedReached ==
  /\ ret = "False"
  /\ count \div sample_rate = MaxCount
  /\ Len(IdnQueries) >= 3

\* a configuration command failed and nothing more was sent
C37_ConfigurationFailedReached ==
  /\ ConfigurationFailed /\ exc = "CommandError"
  /\ idx = 4
  /\ ~Attempted(TriggerCmd) /\ ~Attempted("*IDN?")
====
